---- MODULE Spec2Model ----
(***************************************************************************)
(* Offline media cache of the Ting Reader app: the download queue store    *)
(* (store/downloadStore.ts, found as src/unnamed/part_001) and the mobile  *)
(* cache manager (utils/mobileCacheManager.ts, found as                    *)
(* src/src/utils/image.ts).                                                *)
(*                                                                         *)
(* The runtime is single-threaded: a handler runs without interruption     *)
(* until it awaits.  Every action below is one such uninterrupted run: a   *)
(* public store call with every call it makes synchronously, or the        *)
(* continuation of startDownload after its transfer has settled.           *)
(***************************************************************************)
EXTENDS Integers, Sequences, FiniteSets, TLC

\* ------------------------------------------------------------------ bounds
\* Number of distinct chapter ids the environment uses.
MaxTasks == 3
\* Number of public store calls the environment makes in one run.
MaxCalls == 4

TaskIds == 1..MaxTasks

\* activeTaskId: null.  Task ids are positive, so 0 stands for null (and is
\* falsy, as null is in `if (activeTaskId) return`).
NULL == 0

\* error: undefined
NoError == "undefined"

\* The message a rejected transfer carries (err.message).
ErrorMessages == {"Download failed: 404"}

\* Progress values reported for a running transfer.
ProgressValues == {50}

VARIABLES
    tasks,          \* DownloadState.tasks: the persisted list, newest first
    activeTaskId,   \* DownloadState.activeTaskId
    inflight,       \* inflight[id]: startDownload(id) runs awaiting their transfer
    boot,           \* done: initializeQueue has run since the process started;
                    \* orphans: the ids the rehydrated list held as 'downloading';
                    \* waiting: the orphans not started again so far
    last,           \* the handler that ran last: its name, its id argument and
                    \* the status that id's task had when it was entered
    calls,          \* public store calls made so far
    ahead,          \* ahead[id]: the tasks that were 'pending' when the waiting
                    \* task id was last reset by retryTask, and still wait
    dir,            \* the media_cache directory, in readdir order
    ev,             \* the run of ensureCacheLimits
    dl,             \* the run of downloadToCache
    fs,             \* the cache call that returned last, with its result
    gc,             \* the run of getCachedFile
    ev2,            \* a second run of ensureCacheLimits, beside ev
    bg,             \* bg[name]: the player's downloadInBackground runs for
                    \* `${name}.mp3`, by the await they stand at
    cover           \* the cover download of a task on Electron: the task's
                    \* coverUrl, the server's base url, the token, and the url
                    \* handed to electronAPI.downloadCover

queueVars == <<tasks, activeTaskId, inflight, boot, last, calls, ahead>>

cacheVars == <<dir, ev, dl, fs, gc, ev2>>

vars == <<queueVars, cacheVars, bg, cover>>

\* The store's fields together with the transfers it has started: what a
\* handler reads and writes.
Store == [tasks |-> tasks, activeTaskId |-> activeTaskId, inflight |-> inflight]

\* ------------------------------------------------------------- task lists
\* tasks.map(f)
MapTasks(ts, f(_)) == [i \in 1..Len(ts) |-> f(ts[i])]

\* tasks.filter(keep)
FilterTasks(ts, keep(_)) == SelectSeq(ts, keep)

\* tasks.find(pred): the index of the first match, 0 for undefined
FindTask(ts, pred(_)) ==
    IF \E i \in 1..Len(ts) : pred(ts[i])
    THEN CHOOSE i \in 1..Len(ts) : pred(ts[i]) /\ \A j \in 1..(i - 1) : ~pred(ts[j])
    ELSE 0

\* const newTask = { ...taskInfo, status: 'pending', progress: 0, timestamp }
NewTask(id) == [id |-> id, status |-> "pending", progress |-> 0, error |-> NoError]

\* ------------------------------------------------------------------ store
\* startDownload, up to its await of the transfer.
StartDownload(st, taskId) ==
    LET s1 == [st EXCEPT !.activeTaskId = taskId]
        k  == FindTask(s1.tasks, LAMBDA t : t.id = taskId)
    IN  IF k = 0
        THEN [s1 EXCEPT !.activeTaskId = NULL]
        ELSE [s1 EXCEPT
                !.tasks = MapTasks(s1.tasks,
                    LAMBDA t : IF t.id = taskId
                               THEN [t EXCEPT !.status = "downloading", !.error = NoError]
                               ELSE t),
                !.inflight[taskId] = @ + 1]

\* processQueue without its `if (activeTaskId) return`
MutProcessQueueNoGuard(st) ==
    LET k == FindTask(st.tasks, LAMBDA t : t.status = "pending")
    IN  IF k # 0 THEN StartDownload(st, st.tasks[k].id) ELSE st

\* processQueue (k, the first pending task, is bound once by the singleton)
ProcessQueue(st) ==
    IF st.activeTaskId # NULL THEN st
    ELSE CHOOSE next \in {IF k # 0 THEN StartDownload(st, st.tasks[k].id) ELSE st :
                           k \in {FindTask(st.tasks, LAMBDA t : t.status = "pending")}} : TRUE

\* completeTask
CompleteTask(st, taskId) ==
    [st EXCEPT !.tasks = MapTasks(st.tasks,
        LAMBDA t : IF t.id = taskId
                   THEN [t EXCEPT !.status = "completed", !.progress = 100]
                   ELSE t)]

\* failTask without its test of the id: every task is marked.
MutFailTaskMarksAll(st, taskId, error) ==
    [st EXCEPT !.tasks = MapTasks(st.tasks,
        LAMBDA t : [t EXCEPT !.status = "failed", !.error = error])]

\* failTask
FailTask(st, taskId, error) ==
    [st EXCEPT !.tasks = MapTasks(st.tasks,
        LAMBDA t : IF t.id = taskId
                   THEN [t EXCEPT !.status = "failed", !.error = error]
                   ELSE t)]

\* The settling with a catch block that is not followed by the finally block.
MutSettleNoFinallyOnFailure(st, taskId, ok, error) ==
    IF ok
    THEN ProcessQueue([CompleteTask(st, taskId) EXCEPT
                          !.activeTaskId = NULL, !.inflight[taskId] = @ - 1])
    ELSE [FailTask(st, taskId, error) EXCEPT !.inflight[taskId] = @ - 1]

\* startDownload from the point its transfer settles: completeTask or
\* failTask, then the finally block.
SettleDownload(st, taskId, ok, error) ==
    CHOOSE next \in
        {ProcessQueue([s1 EXCEPT !.activeTaskId = NULL, !.inflight[taskId] = @ - 1]) :
            s1 \in {IF ok THEN CompleteTask(st, taskId) ELSE FailTask(st, taskId, error)}} : TRUE

\* retryTask without its closing `get().processQueue()`
MutRetryNoProcessQueue(st, taskId) ==
    [st EXCEPT !.tasks = MapTasks(st.tasks,
        LAMBDA t : IF t.id = taskId
                   THEN [t EXCEPT !.status = "pending", !.progress = 0, !.error = NoError]
                   ELSE t)]

\* retryTask without its `progress: 0`
MutRetryKeepsProgress(st, taskId) ==
    ProcessQueue([st EXCEPT !.tasks = MapTasks(st.tasks,
        LAMBDA t : IF t.id = taskId
                   THEN [t EXCEPT !.status = "pending", !.error = NoError]
                   ELSE t)])

\* retryTask
RetryTaskOp(st, taskId) ==
    ProcessQueue([st EXCEPT !.tasks = MapTasks(st.tasks,
        LAMBDA t : IF t.id = taskId
                   THEN [t EXCEPT !.status = "pending", !.progress = 0, !.error = NoError]
                   ELSE t)])

\* addTask without its reset of a failed task: the id is inserted again.
MutAddTaskInsertsAgain(st, id) ==
    IF FindTask(st.tasks, LAMBDA t : t.id = id /\ t.status # "failed") # 0 THEN st
    ELSE ProcessQueue([st EXCEPT !.tasks = <<NewTask(id)>> \o st.tasks])

\* addTask resetting whatever task has the id, failed or not.
MutAddTaskResetsAny(st, id) ==
    IF FindTask(st.tasks, LAMBDA t : t.id = id) # 0
    THEN RetryTaskOp(st, id)
    ELSE ProcessQueue([st EXCEPT !.tasks = <<NewTask(id)>> \o st.tasks])

\* addTask
AddTaskOp(st, id) ==
    IF FindTask(st.tasks, LAMBDA t : t.id = id /\ t.status # "failed") # 0 THEN st
    ELSE IF FindTask(st.tasks, LAMBDA t : t.id = id /\ t.status = "failed") # 0
         THEN RetryTaskOp(st, id)
         ELSE ProcessQueue([st EXCEPT !.tasks = <<NewTask(id)>> \o st.tasks])

MutRemoveTaskFreesSlot(st, taskId) ==
    [st EXCEPT !.tasks = FilterTasks(st.tasks, LAMBDA t : t.id # taskId),
               !.activeTaskId = IF st.activeTaskId = taskId THEN NULL ELSE st.activeTaskId]

\* removeTask
RemoveTaskOp(st, taskId) ==
    [st EXCEPT !.tasks = FilterTasks(st.tasks, LAMBDA t : t.id # taskId)]

\* failedTasks.forEach(t => removeTask(t.id))
RECURSIVE RemoveEach(_, _)
RemoveEach(st, failedTasks) ==
    IF failedTasks = <<>> THEN st
    ELSE RemoveEach(RemoveTaskOp(st, Head(failedTasks).id), Tail(failedTasks))

\* clearHistory of the downloads page, confirmed by the user: the tasks of
\* the page's snapshot of the store that are 'failed' are removed one by one.
ClearHistoryOp(st) ==
    RemoveEach(st, FilterTasks(st.tasks, LAMBDA t : t.status = "failed"))

\* clearCompleted
ClearCompletedOp(st) ==
    [st EXCEPT !.tasks = FilterTasks(st.tasks, LAMBDA t : t.status # "completed")]

\* clearAllTasks
ClearAllTasksOp(st) == [st EXCEPT !.tasks = <<>>, !.activeTaskId = NULL]

MutInitializeQueueKeepsStatus(st) == ProcessQueue([st EXCEPT !.activeTaskId = NULL])

\* initializeQueue
InitializeQueueOp(st) ==
    ProcessQueue([st EXCEPT
        !.tasks = MapTasks(st.tasks,
            LAMBDA t : IF t.status = "downloading" THEN [t EXCEPT !.status = "pending"] ELSE t),
        !.activeTaskId = NULL])

\* updateTaskProgress
UpdateTaskProgressOp(st, taskId, progress) ==
    [st EXCEPT !.tasks = MapTasks(st.tasks,
        LAMBDA t : IF t.id = taskId THEN [t EXCEPT !.progress = progress] ELSE t)]

\* ---------------------------------------------------------------- actions
\* The status of the task with this id, "absent" when the list has none.
StatusOf(ts, id) ==
    LET k == FindTask(ts, LAMBDA t : t.id = id)
    IN  IF k = 0 THEN "absent" ELSE ts[k].status

Ran(op, id) == [op |-> op, id |-> id, was |-> StatusOf(tasks, id)]

\* The orphans still waiting once the store is st: those startDownload has
\* not set 'downloading' with a transfer of their own.
StillWaiting(st) ==
    {id \in boot.waiting : ~(StatusOf(st.tasks, id) = "downloading" /\ st.inflight[id] > 0)}

\* The ids of the tasks of a list that are 'pending'.
PendingIds(ts) == {ts[i].id : i \in {j \in 1..Len(ts) : ts[j].status = "pending"}}

\* The tasks ahead of each waiting task once handler op(id) has left the
\* list as `after`: retryTask (called by addTask for a 'failed' task) notes
\* for its task those that were waiting when it ran; a task that waits no
\* longer is ahead of none and has none ahead.
AheadAfter(after, op, id) ==
    LET waiting == PendingIds(after)
        reset == op = "retryTask" \/ (op = "addTask" /\ StatusOf(tasks, id) = "failed")
    IN  [i \in TaskIds |->
            IF i \notin waiting THEN {}
            ELSE IF reset /\ i = id THEN (PendingIds(tasks) \ {i}) \cap waiting
            ELSE ahead[i] \cap waiting]

\* The handler's result becomes the store's state.
Commit(new, op, id) ==
    /\ boot.done
    /\ \E st \in {new} :
        /\ tasks' = st.tasks
        /\ activeTaskId' = st.activeTaskId
        /\ inflight' = st.inflight
        /\ boot' = [boot EXCEPT !.waiting = StillWaiting(st)]
        /\ ahead' = AheadAfter(st.tasks, op, id)
    /\ last' = Ran(op, id)
    /\ UNCHANGED <<cacheVars, bg, cover>>

Call(st, op, id) ==
    /\ calls < MaxCalls
    /\ calls' = calls + 1
    /\ Commit(st, op, id)

AddTask(id) == Call(AddTaskOp(Store, id), "addTask", id)

RetryTask(id) == Call(RetryTaskOp(Store, id), "retryTask", id)

RemoveTask(id) == Call(RemoveTaskOp(Store, id), "removeTask", id)

ClearCompleted == Call(ClearCompletedOp(Store), "clearCompleted", NULL)

ClearHistory == Call(ClearHistoryOp(Store), "clearHistory", NULL)

ClearAllTasks == Call(ClearAllTasksOp(Store), "clearAllTasks", NULL)

\* A progress event of a running transfer.
UpdateTaskProgress(id, p) ==
    /\ inflight[id] > 0
    /\ Commit(UpdateTaskProgressOp(Store, id, p), "updateTaskProgress", id)
    /\ UNCHANGED calls

\* The transfer of a startDownload(id) resolves.
TransferSucceed(id) ==
    /\ inflight[id] > 0
    /\ Commit(SettleDownload(Store, id, TRUE, NoError), "transferSucceed", id)
    /\ UNCHANGED calls

\* The transfer of a startDownload(id) rejects.
TransferFail(id, msg) ==
    /\ inflight[id] > 0
    /\ Commit(SettleDownload(Store, id, FALSE, msg), "transferFail", id)
    /\ UNCHANGED calls

\* The Electron branch of startDownload's try block: completeTask is reached
\* when downloadChapter resolved and, the task having a coverUrl,
\* downloadCover resolved too.
ElectronTryCompletes(chapterOk, hasCover, coverOk) ==
    chapterOk /\ (hasCover => coverOk)

\* How the awaits of the Electron branch went.
ElectronOutcome(chapterOk, hasCover, coverOk) ==
    IF ~chapterOk THEN "chapterRejected"
    ELSE IF hasCover /\ ~coverOk THEN "coverRejected"
    ELSE "electronResolved"

\* With electronAPI present: the awaits of startDownload(id) have settled,
\* downloadChapter and, after it, downloadCover for a task with a coverUrl.
\* Nothing is written to the store between the two awaits, so they make one
\* step.
ElectronTransferEnds(id) ==
    /\ inflight[id] > 0
    /\ \E chapterOk, hasCover, coverOk \in BOOLEAN, msg \in ErrorMessages :
         Commit(SettleDownload(Store, id, ElectronTryCompletes(chapterOk, hasCover, coverOk), msg),
                ElectronOutcome(chapterOk, hasCover, coverOk), id)
    /\ UNCHANGED calls

\* ================================================================== cache
\* ------------------------------------------------------------------ bounds
\* Largest number of files in a directory whose sizes and modification times
\* are drawn freely.
MaxSmall == 3
\* Largest number of files above MAX_FILES in a full directory.
MaxOver == 2
\* Number of file names downloads and deletions use.
MaxNames == 2
\* Number of downloadToCache calls in one run.
MaxDownloads == 2

\* ---------------------------------------------------------------- constants
\* File sizes are counted in MiB (TLC's integers end below 2^31 bytes).
\* const MAX_CACHE_SIZE_BYTES = 2 * 1024 * 1024 * 1024, in MiB
MAX_CACHE_SIZE_BYTES == 2 * 1024
\* const MAX_FILES = 50
MAX_FILES == 50
\* the chunking threshold 50 * 1024 * 1024, in MiB
CHUNK_THRESHOLD == 50
\* const CHUNK_SIZE = 1024 * 1024, in MiB
CHUNK_SIZE == 1

FileNames == 1..MaxNames

\* ------------------------------------------------------------------- files
\* A file of the directory: `${name}.mp3`, or `${name}.mp3.tmp` when tmp.
\* size and mtime are what stat reports; whole is the size of the resource
\* the bytes were taken from, so that size < whole is partial content.
CacheFile(name, tmp, size, mtime, whole) ==
    [name |-> name, tmp |-> tmp, size |-> size, mtime |-> mtime, whole |-> whole]

\* The index of the file at this path, 0 when there is none.
FileAt(d, name, tmp) ==
    IF \E i \in 1..Len(d) : d[i].name = name /\ d[i].tmp = tmp
    THEN CHOOSE i \in 1..Len(d) : d[i].name = name /\ d[i].tmp = tmp
    ELSE 0

Exists(d, name, tmp) == FileAt(d, name, tmp) # 0

\* The directory without the file at this path.
Unlink(d, name, tmp) == SelectSeq(d, LAMBDA f : ~(f.name = name /\ f.tmp = tmp))

RECURSIVE SumSizes(_)
SumSizes(files) ==
    IF files = <<>> THEN 0 ELSE Head(files).size + SumSizes(Tail(files))

\* The modification time of a file written now: later than every file's.
RECURSIVE Now(_)
Now(d) ==
    IF d = <<>> THEN 1
    ELSE LET rest == Now(Tail(d))
         IN  IF Head(d).mtime >= rest THEN Head(d).mtime + 1 ELSE rest

\* --------------------------------------------------------------- eviction
\* The statistics without the test of the .tmp suffix.
MutStatsCountTemp(d) == [size |-> SumSizes(d), files |-> d]

\* getCacheStats: the non-temp files, with their total size
GetCacheStats(d) ==
    LET validFiles == SelectSeq(d, LAMBDA f : ~f.tmp)
    IN  [size |-> SumSizes(validFiles), files |-> validFiles]

\* files.sort((a, b) => (a.mtime || 0) - (b.mtime || 0)): a stable sort,
\* oldest first
RECURSIVE SortByMtime(_)
SortByMtime(files) ==
    IF files = <<>> THEN <<>>
    ELSE LET n == Len(files)
             f == files[n]
             sorted == SortByMtime(SubSeq(files, 1, n - 1))
         IN  SelectSeq(sorted, LAMBDA g : g.mtime <= f.mtime) \o <<f>>
                 \o SelectSeq(sorted, LAMBDA g : g.mtime > f.mtime)

\* The size pass breaking on `currentSize < MAX` only: a cache that stands at
\* the limit exactly loses one more file.
RECURSIVE MutSizePassStrict(_, _)
MutSizePassStrict(files, currentSize) ==
    IF files = <<>> \/ currentSize < MAX_CACHE_SIZE_BYTES THEN <<>>
    ELSE <<Head(files)>> \o MutSizePassStrict(Tail(files), currentSize - Head(files).size)

\* for (const file of files) { if (currentSize <= MAX) break; ... }
RECURSIVE SizePass(_, _)
SizePass(files, currentSize) ==
    IF files = <<>> \/ currentSize <= MAX_CACHE_SIZE_BYTES THEN <<>>
    ELSE <<Head(files)>> \o SizePass(Tail(files), currentSize - Head(files).size)

\* The plan without the size pass.
MutPlanCountOnly(files, size) ==
    LET sorted == SortByMtime(files)
        countToDelete == IF Len(sorted) > MAX_FILES THEN Len(sorted) - MAX_FILES ELSE 0
    IN  SubSeq(sorted, 1, countToDelete)

\* The plan with the count pass taking the newest files.
MutPlanNewestByCount(files, size) ==
    LET sorted == SortByMtime(files)
        n == Len(sorted)
        countToDelete == IF n > MAX_FILES THEN n - MAX_FILES ELSE 0
        deletedByCount == SubSeq(sorted, n - countToDelete + 1, n)
        rest == SubSeq(sorted, 1, n - countToDelete)
    IN  deletedByCount \o SizePass(rest, size - SumSizes(deletedByCount))

\* The plan with a size pass that spares the newest file.
MutPlanSparesNewest(files, size) ==
    LET sorted == SortByMtime(files)
        n == Len(sorted)
        countToDelete == IF n > MAX_FILES THEN n - MAX_FILES ELSE 0
        deletedByCount == SubSeq(sorted, 1, countToDelete)
        rest == SubSeq(sorted, countToDelete + 1, n - 1)
    IN  deletedByCount \o SizePass(rest, size - SumSizes(deletedByCount))

\* ensureCacheLimits, from the sort to filesToDelete
PlanEviction(files, size) ==
    LET sorted == SortByMtime(files)
        countToDelete == IF Len(sorted) > MAX_FILES THEN Len(sorted) - MAX_FILES ELSE 0
        deletedByCount == SubSeq(sorted, 1, countToDelete)
        rest == SubSeq(sorted, countToDelete + 1, Len(sorted))
    IN  deletedByCount \o SizePass(rest, size - SumSizes(deletedByCount))

EvIdle == [pc |-> "idle", before |-> <<>>, plan |-> <<>>, rejected |-> {}]

\* ensureCacheLimits is called: getCacheStats, the test of the limits and the
\* choice of the files to delete.  before keeps the directory as it was read.
EvictScan ==
    /\ ev.pc \in {"idle", "returned"}
    /\ \E stats \in {GetCacheStats(dir)} :
         \E plan \in {IF stats.size > MAX_CACHE_SIZE_BYTES \/ Len(stats.files) > MAX_FILES
                      THEN PlanEviction(stats.files, stats.size)
                      ELSE <<>>} :
            ev' = [pc |-> IF plan = <<>> THEN "returned" ELSE "deleting",
                   before |-> dir, plan |-> plan, rejected |-> {}]
    /\ fs' = [op |-> "ensureCacheLimits"]
    /\ UNCHANGED <<dir, dl, gc, queueVars, ev2, bg, cover>>

\* One turn of `for (const file of filesToDelete) await deleteFile(...)`.  A
\* file that is gone makes deleteFile reject, which ends the pass (the outer
\* catch).
EvictDelete ==
    /\ ev.pc = "deleting"
    /\ LET f == Head(ev.plan)
       IN  IF Exists(dir, f.name, f.tmp)
           THEN /\ dir' = Unlink(dir, f.name, f.tmp)
                /\ ev' = [ev EXCEPT !.plan = Tail(ev.plan),
                                    !.pc = IF Tail(ev.plan) = <<>> THEN "returned" ELSE "deleting"]
           ELSE /\ dir' = dir
                /\ ev' = [ev EXCEPT !.plan = <<>>, !.pc = "returned"]
    /\ UNCHANGED <<dl, fs, gc, queueVars, ev2, bg, cover>>

\* An error of the pass thrown on into the run of downloadToCache that
\* started the pass.
MutEvictionErrorThrown(run) ==
    IF run.pc = "uri" THEN [run EXCEPT !.pc = "cleanup", !.failedAt = "evict"] ELSE run

\* What an error inside the pass does to the run of downloadToCache that
\* started it: nothing, the pass's own catch logs it, and the call is
\* `ensureCacheLimits().catch(console.error)`, not awaited.
EvictionErrorCaught(run) == run

\* One turn of the delete loop in which deleteFile rejects for a file that
\* is there.  The loop has no catch of its own: the error leaves it for the
\* outer catch and the files after this one are not attempted.  rejected
\* keeps the file.
EvictDeleteRejects ==
    /\ ev.pc = "deleting"
    /\ Exists(dir, Head(ev.plan).name, Head(ev.plan).tmp)
    /\ ev' = [ev EXCEPT !.plan = <<>>, !.pc = "returned", !.rejected = {Head(ev.plan)}]
    /\ dl' = EvictionErrorCaught(dl)
    /\ UNCHANGED <<dir, fs, gc, queueVars, ev2, bg, cover>>

\* The second run of ensureCacheLimits reads the directory, as EvictScan.
Evict2Scan ==
    /\ ev2.pc \in {"idle", "returned"}
    /\ \E stats \in {GetCacheStats(dir)} :
         \E plan \in {IF stats.size > MAX_CACHE_SIZE_BYTES \/ Len(stats.files) > MAX_FILES
                      THEN PlanEviction(stats.files, stats.size)
                      ELSE <<>>} :
            ev2' = [pc |-> IF plan = <<>> THEN "returned" ELSE "deleting",
                    before |-> dir, plan |-> plan, rejected |-> {}]
    /\ fs' = [op |-> "ensureCacheLimits"]
    /\ UNCHANGED <<dir, ev, dl, gc, queueVars, bg, cover>>

\* One turn of the second run's delete loop, as EvictDelete: deleteFile
\* rejects for a file the other run has deleted already, which ends the run.
Evict2Delete ==
    /\ ev2.pc = "deleting"
    /\ LET f == Head(ev2.plan)
       IN  IF Exists(dir, f.name, f.tmp)
           THEN /\ dir' = Unlink(dir, f.name, f.tmp)
                /\ ev2' = [ev2 EXCEPT !.plan = Tail(ev2.plan),
                                      !.pc = IF Tail(ev2.plan) = <<>> THEN "returned" ELSE "deleting"]
           ELSE /\ dir' = dir
                /\ ev2' = [ev2 EXCEPT !.plan = <<>>, !.pc = "returned"]
    /\ UNCHANGED <<ev, dl, fs, gc, queueVars, bg, cover>>

\* -------------------------------------------------------- removeCachedFile
\* Error messages, as the words message.includes() searches.
MsgNotFound == <<"File", "not", "found">>
MsgDoesNotExist == <<"File", "does", "not", "exist">>
MsgUnableToDelete == <<"Unable", "to", "delete", "file">>

\* What Filesystem.deleteFile can reject with when the file is absent.  The
\* wording is the platform's, not the caller's: the Android plugin rejects
\* with "File does not exist".
AbsentFileMessages == {MsgNotFound, MsgDoesNotExist}

\* message.includes(pattern)
Includes(message, pattern) ==
    \E i \in 1..(Len(message) - Len(pattern) + 1) :
        SubSeq(message, i, i + Len(pattern) - 1) = pattern

\* The catch block of removeCachedFile:
\* if (message.includes('not found')) return true; ... return false
RemoveCachedFileCatch(message) == Includes(message, <<"not", "found">>)

\* removeCachedFile(`${name}.mp3`) on a file that exists: deleteFile resolves,
\* or rejects (the file stays).
RemoveCachedFilePresent(name) ==
    /\ Exists(dir, name, FALSE)
    /\ \/ /\ dir' = Unlink(dir, name, FALSE)
          /\ fs' = [op |-> "removeCachedFile", name |-> name, existed |-> TRUE, result |-> TRUE]
       \/ /\ dir' = dir
          /\ fs' = [op |-> "removeCachedFile", name |-> name, existed |-> TRUE,
                    result |-> RemoveCachedFileCatch(MsgUnableToDelete)]
    /\ UNCHANGED <<ev, dl, gc, queueVars, ev2, bg, cover>>

\* removeCachedFile(`${name}.mp3`) on a file that is absent: deleteFile rejects.
RemoveCachedFileAbsent(name) ==
    /\ ~Exists(dir, name, FALSE)
    /\ \E message \in AbsentFileMessages :
         fs' = [op |-> "removeCachedFile", name |-> name, existed |-> FALSE,
                result |-> RemoveCachedFileCatch(message)]
    /\ UNCHANGED <<dir, ev, dl, gc, queueVars, ev2, bg, cover>>

RemoveCachedFile(name) == RemoveCachedFilePresent(name) \/ RemoveCachedFileAbsent(name)

\* ----------------------------------------------------------- getCachedFile
\* stat.uri of the final-named file, and the null returned in its place
UriOf(name) == <<"uri", name>>

NullUri == <<>>

\* The test made of the probed size with no file ever found empty.
MutNeverEmpty(size) == FALSE

\* if (stat.size === 0)
IsEmptyFile(size) == size = 0

GcIdle == [pc |-> "idle", name |-> 0, before |-> <<>>, refused |-> FALSE]

\* getCachedFile(`${name}.mp3`) is called and its stat settles.  It rejects
\* for an absent file (null is returned); a file of size 0 has its deletion
\* requested; any other file has its uri returned.  before keeps the
\* directory as the call found it.
GcStat(name) ==
    /\ gc.pc \in {"idle", "returned"}
    /\ LET k == FileAt(dir, name, FALSE)
       IN  IF k # 0 /\ IsEmptyFile(dir[k].size)
           THEN /\ gc' = [GcIdle EXCEPT !.pc = "deleting", !.name = name, !.before = dir]
                /\ fs' = fs
           ELSE /\ gc' = [GcIdle EXCEPT !.pc = "returned", !.name = name, !.before = dir]
                /\ fs' = [op |-> "getCachedFile", name |-> name,
                          result |-> IF k # 0 THEN UriOf(name) ELSE NullUri]
    /\ UNCHANGED <<dir, ev, dl, queueVars, ev2, bg, cover>>

\* The deleteFile of the empty file settled: it resolved, or it rejected and
\* the error was dropped.  null is returned.
GcDelete ==
    /\ gc.pc = "deleting"
    /\ \/ /\ dir' = Unlink(dir, gc.name, FALSE)
          /\ gc' = [gc EXCEPT !.pc = "returned"]
       \/ /\ dir' = dir
          /\ gc' = [gc EXCEPT !.pc = "returned", !.refused = TRUE]
    /\ fs' = [op |-> "getCachedFile", name |-> gc.name, result |-> NullUri]
    /\ UNCHANGED <<ev, dl, queueVars, ev2, bg, cover>>

\* ---------------------------------------------------------- downloadToCache
\* Content-Length values the HEAD probe can report; 0 is an absent header.
HeadSizes == {0, 1, CHUNK_THRESHOLD, CHUNK_THRESHOLD + 1}
\* What the HEAD probe can be answered with: a status and a Content-Length.
HeadResponses == {<<200, size>> : size \in HeadSizes} \cup {<<404, 0>>}

\* The statuses a ranged request and a whole-body request can be answered
\* with.
ChunkStatuses == {206, 404}

BodyStatuses == {200, 404}

\* if (response.status >= 400) throw, for a chunk
ChunkStatusThrows(status) == status >= 400

\* if (response.status !== 200) throw, for the whole body
BodyStatusThrows(status) == status # 200

\* Body sizes of a resource whose size the probe did not report.
UnknownBodySizes == {0, 2}

\* The final-named file of a name: a list of one file, or of none.
FinalOf(d, name) == SelectSeq(d, LAMBDA f : f.name = name /\ ~f.tmp)

\* The download writing under the final name itself.
MutTempIsFinal == FALSE

\* const tempFileName = `${fileName}.tmp`: the path the download writes to
\* carries the .tmp suffix.
tempFileName == TRUE

\* writeFile: the file is created, or replaced where it stands
WriteFile(d, file) ==
    LET k == FileAt(d, file.name, file.tmp)
    IN  IF k = 0 THEN Append(d, file) ELSE [d EXCEPT ![k] = file]

\* appendFile: the bytes are added to the file, which is created if absent
AppendFile(d, name, tmp, size, whole) ==
    LET k == FileAt(d, name, tmp)
    IN  IF k = 0 THEN Append(d, CacheFile(name, tmp, size, Now(d), whole))
        ELSE [d EXCEPT ![k] = [@ EXCEPT !.size = @ + size, !.mtime = Now(d)]]

\* rename(from temp, to final): the temp file's content under the final name
Rename(d, name) ==
    LET t == d[FileAt(d, name, tempFileName)]
    IN  WriteFile(Unlink(Unlink(d, name, tempFileName), name, FALSE), [t EXCEPT !.tmp = FALSE])

\* The run of downloadToCache.  seen keeps the statuses of the responses it
\* received; task is the task whose startDownload awaits it, if any.
DlIdle == [pc |-> "idle", name |-> 0, total |-> 0, offset |-> 0, resp |-> 0,
           before |-> <<>>, failedAt |-> "none", spawned |-> 0, runs |-> 0,
           seen |-> {}, task |-> NULL]

\* downloadToCache(url, `${name}.mp3`) is called; it awaits the readdir.
\* before keeps the final-named file as the call found it.
DlStart(name) ==
    /\ dl.pc \in {"idle", "done", "failed"}
    /\ dl.runs < MaxDownloads
    /\ dl' = [DlIdle EXCEPT !.pc = "ensureDir", !.name = name,
                            !.before = FinalOf(dir, name), !.runs = dl.runs + 1]
    /\ UNCHANGED <<dir, ev, fs, gc, queueVars, ev2, bg, cover>>

\* readdir (or mkdir) resolved; the HEAD request is sent.
DlEnsureDir ==
    /\ dl.pc = "ensureDir"
    /\ dl' = [dl EXCEPT !.pc = "head"]
    /\ UNCHANGED <<dir, ev, fs, gc, queueVars, ev2, bg, cover>>

\* The HEAD response: totalSize = parseInt(contentLength || '0'), and its
\* status is not looked at.  The stale temp file is then deleted.
DlHead(status, totalSize) ==
    /\ dl.pc = "head"
    /\ dl' = [dl EXCEPT !.pc = "clean", !.total = totalSize, !.seen = @ \cup {status}]
    /\ UNCHANGED <<dir, ev, fs, gc, queueVars, ev2, bg, cover>>

\* deleteFile(temp) settled, its error ignored; the transfer mode is chosen
\* and the first request sent.
DlClean ==
    /\ dl.pc = "clean"
    /\ dir' = Unlink(dir, dl.name, tempFileName)
    /\ dl' = [dl EXCEPT !.pc = IF dl.total > 0 /\ dl.total > CHUNK_THRESHOLD
                               THEN "chunkGet" ELSE "get",
                        !.offset = 0]
    /\ UNCHANGED <<ev, fs, gc, queueVars, ev2, bg, cover>>

\* const end = Math.min(offset + CHUNK_SIZE - 1, totalSize - 1), in bytes:
\* the length of the range, in MiB
RangeLength(offset, totalSize) ==
    IF offset + CHUNK_SIZE <= totalSize THEN CHUNK_SIZE ELSE totalSize - offset

\* A ranged response arrived: the requested range, or a status that throws.
DlChunkGet ==
    /\ dl.pc = "chunkGet"
    /\ \E status \in ChunkStatuses :
         dl' = IF ChunkStatusThrows(status)
               THEN [dl EXCEPT !.pc = "cleanup", !.failedAt = dl.pc, !.seen = @ \cup {status}]
               ELSE [dl EXCEPT !.pc = "chunkWrite", !.seen = @ \cup {status},
                               !.resp = RangeLength(dl.offset, dl.total)]
    /\ UNCHANGED <<dir, ev, fs, gc, queueVars, ev2, bg, cover>>

\* writeFile (first chunk) or appendFile resolved; offset += CHUNK_SIZE.
DlChunkWrite ==
    /\ dl.pc = "chunkWrite"
    /\ dir' = IF dl.offset = 0
              THEN WriteFile(dir, CacheFile(dl.name, tempFileName, dl.resp, Now(dir), dl.total))
              ELSE AppendFile(dir, dl.name, tempFileName, dl.resp, dl.total)
    /\ dl' = [dl EXCEPT !.offset = dl.offset + CHUNK_SIZE,
                        !.pc = IF dl.offset + CHUNK_SIZE < dl.total THEN "chunkGet" ELSE "rename"]
    /\ UNCHANGED <<ev, fs, gc, queueVars, ev2, bg, cover>>

\* The whole-body response arrived: the body, or a status that throws.
DlGet ==
    /\ dl.pc = "get"
    /\ \E status \in BodyStatuses, body \in IF dl.total > 0 THEN {dl.total} ELSE UnknownBodySizes :
         dl' = IF BodyStatusThrows(status)
               THEN [dl EXCEPT !.pc = "cleanup", !.failedAt = dl.pc, !.seen = @ \cup {status}]
               ELSE [dl EXCEPT !.pc = "write", !.resp = body, !.seen = @ \cup {status}]
    /\ UNCHANGED <<dir, ev, fs, gc, queueVars, ev2, bg, cover>>

\* writeFile of the whole body resolved.
DlWrite ==
    /\ dl.pc = "write"
    /\ dir' = WriteFile(dir, CacheFile(dl.name, tempFileName, dl.resp, Now(dir), dl.resp))
    /\ dl' = [dl EXCEPT !.pc = "rename"]
    /\ UNCHANGED <<ev, fs, gc, queueVars, ev2, bg, cover>>

\* rename resolved (it rejects when the temp file is not there); then
\* ensureCacheLimits() is started and getUri awaited.
DlRename ==
    /\ dl.pc = "rename"
    /\ IF Exists(dir, dl.name, tempFileName)
       THEN /\ dir' = Rename(dir, dl.name)
            /\ dl' = [dl EXCEPT !.pc = "uri", !.spawned = dl.spawned + 1]
       ELSE /\ dir' = dir
            /\ dl' = [dl EXCEPT !.pc = "cleanup", !.failedAt = "rename"]
    /\ UNCHANGED <<ev, fs, gc, queueVars, ev2, bg, cover>>

\* getUri resolved: downloadToCache returns the uri.
DlGetUri ==
    /\ dl.pc = "uri"
    /\ dl' = [dl EXCEPT !.pc = "done"]
    /\ fs' = [op |-> "downloadToCache", name |-> dl.name, result |-> TRUE]
    /\ UNCHANGED <<dir, ev, gc, queueVars, ev2, bg, cover>>

\* The awaited call rejects (for a request: a network failure): control
\* enters the catch block, which awaits the deletion of the temp file.
DlThrow ==
    /\ dl.pc \in {"ensureDir", "head", "chunkGet", "chunkWrite", "get", "write", "rename", "uri"}
    /\ dl' = [dl EXCEPT !.pc = "cleanup", !.failedAt = dl.pc]
    /\ UNCHANGED <<dir, ev, fs, gc, queueVars, ev2, bg, cover>>

\* writeFile rejects after it created the file: an empty temp file is left.
DlTornWrite ==
    /\ dl.pc \in {"chunkWrite", "write"}
    /\ dl.offset = 0
    /\ dir' = WriteFile(dir, CacheFile(dl.name, tempFileName, 0, Now(dir),
                                       IF dl.pc = "write" THEN dl.resp ELSE dl.total))
    /\ dl' = [dl EXCEPT !.pc = "cleanup", !.failedAt = dl.pc]
    /\ UNCHANGED <<ev, fs, gc, queueVars, ev2, bg, cover>>

\* rename rejects after it removed the file it was to replace: the prior
\* version is gone and the temp file is still there.
DlTornRename ==
    /\ dl.pc = "rename"
    /\ Exists(dir, dl.name, FALSE)
    /\ dir' = Unlink(dir, dl.name, FALSE)
    /\ dl' = [dl EXCEPT !.pc = "cleanup", !.failedAt = dl.pc]
    /\ UNCHANGED <<ev, fs, gc, queueVars, ev2, bg, cover>>

\* The catch block's deleteFile(temp) settled, its error ignored; the error
\* is thrown again.
DlCleanup ==
    /\ dl.pc = "cleanup"
    /\ dir' = Unlink(dir, dl.name, tempFileName)
    /\ dl' = [dl EXCEPT !.pc = "failed"]
    /\ fs' = [op |-> "downloadToCache", name |-> dl.name, result |-> FALSE]
    /\ UNCHANGED <<ev, gc, queueVars, ev2, bg, cover>>

\* ------------------------------------------- the transfer, byte by byte
\* The probe, the choice of the mode and the chunk loop with sizes counted
\* in bytes, as the code counts them.
\* 50 * 1024 * 1024
ThresholdBytes == 52428800
\* const CHUNK_SIZE = 1024 * 1024
ChunkBytes == 1048576

\* if (totalSize > 0 && totalSize > 50 * 1024 * 1024) with >= for the
\* threshold.
MutChunksAtThreshold(totalSize) == totalSize > 0 /\ totalSize >= ThresholdBytes

\* if (totalSize > 0 && totalSize > 50 * 1024 * 1024)
UsesChunks(totalSize) == totalSize > 0 /\ totalSize > ThresholdBytes

\* The end of a range taken one byte too far.
MutRangeEndOneFurther(offset, totalSize) ==
    IF offset + ChunkBytes < totalSize - 1 THEN offset + ChunkBytes ELSE totalSize - 1

\* const end = Math.min(offset + CHUNK_SIZE - 1, totalSize - 1)
RangeEnd(offset, totalSize) ==
    IF offset + ChunkBytes - 1 < totalSize - 1 THEN offset + ChunkBytes - 1 ELSE totalSize - 1

\* A run of downloadToCache that also keeps the ranges it requested and the
\* calls it wrote the temp file with.
ByteRun(name) ==
    [f \in DOMAIN DlIdle \cup {"ranges", "writes"} |->
        IF f = "pc" THEN "ensureDir"
        ELSE IF f = "name" THEN name
        ELSE IF f = "runs" THEN 1
        ELSE IF f \in {"ranges", "writes"} THEN <<>>
        ELSE DlIdle[f]]

\* deleteFile(temp) settled; the transfer mode is chosen on the probed size
\* and the first request sent.
ByteClean ==
    /\ dl.pc = "clean"
    /\ dir' = Unlink(dir, dl.name, tempFileName)
    /\ dl' = [dl EXCEPT !.pc = IF UsesChunks(dl.total) THEN "chunkGet" ELSE "get", !.offset = 0]
    /\ UNCHANGED <<ev, fs, gc, queueVars, ev2, bg, cover>>

\* The response to `Range: bytes=${offset}-${end}` arrived: the bytes of the
\* range, or a status that throws.
ByteChunkGet ==
    /\ dl.pc = "chunkGet"
    /\ \E status \in ChunkStatuses, end \in {RangeEnd(dl.offset, dl.total)} :
         dl' = IF ChunkStatusThrows(status)
               THEN [dl EXCEPT !.pc = "cleanup", !.failedAt = dl.pc, !.seen = @ \cup {status},
                               !.ranges = Append(@, <<dl.offset, end>>)]
               ELSE [dl EXCEPT !.pc = "chunkWrite", !.seen = @ \cup {status},
                               !.resp = end - dl.offset + 1,
                               !.ranges = Append(@, <<dl.offset, end>>)]
    /\ UNCHANGED <<dir, ev, fs, gc, queueVars, ev2, bg, cover>>

\* if (offset === 0) writeFile else appendFile resolved; offset += CHUNK_SIZE
\* and the test of the while loop.
ByteChunkWrite ==
    /\ dl.pc = "chunkWrite"
    /\ dir' = IF dl.offset = 0
              THEN WriteFile(dir, CacheFile(dl.name, tempFileName, dl.resp, Now(dir), dl.total))
              ELSE AppendFile(dir, dl.name, tempFileName, dl.resp, dl.total)
    /\ dl' = [dl EXCEPT !.offset = dl.offset + ChunkBytes,
                        !.writes = Append(@, IF dl.offset = 0 THEN "writeFile" ELSE "appendFile"),
                        !.pc = IF dl.offset + ChunkBytes < dl.total THEN "chunkGet" ELSE "rename"]
    /\ UNCHANGED <<ev, fs, gc, queueVars, ev2, bg, cover>>

\* ------------------------------------------------- the queue's downloads
\* startDownload(id) on the mobile path calls mobileDownload(url,
\* `${chapterId}.mp3`), which is downloadToCache: the file is named after the
\* task.  The call is made in the run of startDownload that set the task
\* 'downloading'; nothing is read or written before its first await, so it
\* is a step of its own here.
TaskDownloadStarts(id) ==
    /\ inflight[id] > 0
    /\ dl.task = NULL
    /\ dl.pc \in {"idle", "done", "failed"}
    /\ dl.runs < MaxDownloads
    /\ dl' = [DlIdle EXCEPT !.pc = "ensureDir", !.name = id, !.task = id,
                            !.before = FinalOf(dir, id), !.runs = dl.runs + 1]
    /\ UNCHANGED <<dir, ev, fs, gc, queueVars, ev2, bg, cover>>

\* The await of mobileDownload in startDownload(id) settles as
\* downloadToCache ended: completeTask or failTask, then the finally block.
TaskTransferSettles(id) ==
    /\ dl.task = id
    /\ dl.pc \in {"done", "failed"}
    /\ inflight[id] > 0
    /\ \E msg \in ErrorMessages :
         \E st \in {SettleDownload(Store, id, dl.pc = "done", msg)} :
            /\ tasks' = st.tasks
            /\ activeTaskId' = st.activeTaskId
            /\ inflight' = st.inflight
            /\ boot' = [boot EXCEPT !.waiting = StillWaiting(st)]
            /\ ahead' = AheadAfter(st.tasks, "transferEnds", id)
    /\ last' = Ran(IF dl.pc = "done" THEN "transferSucceed" ELSE "transferFail", id)
    /\ dl' = [dl EXCEPT !.task = NULL]
    /\ UNCHANGED <<calls, dir, ev, fs, gc, ev2, bg, cover>>

\* The pass that `ensureCacheLimits().catch(console.error)` started after a
\* rename reads the directory.
TriggeredEvictScan ==
    /\ dl.spawned > 0
    /\ ev.pc = "idle"
    /\ EvictScan

\* ------------------------------------------------------ the downloads page
\* handleDelete of the downloads page, confirmed by the user, for a task of
\* the list whose chapter is cached as `${id}.mp3`: removeTask, then
\* removeCachedFile, whose deleteFile resolves or, the file being absent,
\* rejects.  No running transfer is looked for or cancelled.
HandleDelete(id) ==
    /\ StatusOf(tasks, id) # "absent"
    /\ calls < MaxCalls
    /\ calls' = calls + 1
    /\ boot.done
    /\ \E st \in {RemoveTaskOp(Store, id)} :
        /\ tasks' = st.tasks
        /\ activeTaskId' = st.activeTaskId
        /\ inflight' = st.inflight
        /\ boot' = [boot EXCEPT !.waiting = StillWaiting(st)]
        /\ ahead' = AheadAfter(st.tasks, "removeTask", id)
    /\ last' = Ran("handleDelete", id)
    /\ dir' = Unlink(dir, id, FALSE)
    /\ \E message \in AbsentFileMessages :
         fs' = [op |-> "removeCachedFile", name |-> id, existed |-> Exists(dir, id, FALSE),
                result |-> Exists(dir, id, FALSE) \/ RemoveCachedFileCatch(message)]
    /\ UNCHANGED <<ev, dl, gc, ev2, bg, cover>>

\* ------------------------------------------------------------- the player
\* No run of downloadInBackground; runs counts the runs made.  For the run
\* of a name, at is the await it stands at, in downloadInBackground or in the
\* downloadToCache it called, and total, offset and resp are that call's
\* totalSize, offset and the length of the response it received last.
BgIdle ==
    [at |-> [name \in FileNames |-> "idle"], runs |-> 0,
     total |-> [name \in FileNames |-> 0], offset |-> [name \in FileNames |-> 0],
     resp |-> [name \in FileNames |-> 0]]

\* The player calls downloadInBackground(name), from the timer of the
\* chapter being played or from the preload effect for the next chapter; it
\* awaits getCachedFile.  The queue's state is not consulted.
DownloadInBackground(name) ==
    /\ bg.at[name] = "idle"
    /\ bg.runs < MaxDownloads
    /\ bg' = [bg EXCEPT !.at[name] = "check", !.runs = bg.runs + 1]
    /\ UNCHANGED <<queueVars, cacheVars, cover>>

\* `if (await getCachedFile(fileName)) return;` and, for a file that is not
\* cached, the call of downloadToCache, which awaits the readdir and then
\* the HEAD request.  getCachedFile deletes an empty file.
BackgroundCacheChecked(name) ==
    /\ bg.at[name] = "check"
    /\ LET k == FileAt(dir, name, FALSE)
       IN  IF k = 0
           THEN dir' = dir /\ bg' = [bg EXCEPT !.at[name] = "head"]
           ELSE IF IsEmptyFile(dir[k].size)
           THEN dir' = Unlink(dir, name, FALSE) /\ bg' = [bg EXCEPT !.at[name] = "head"]
           ELSE dir' = dir /\ bg' = [bg EXCEPT !.at[name] = "idle"]
    /\ UNCHANGED <<queueVars, ev, dl, fs, gc, ev2, cover>>

\* The player's downloadToCache received the HEAD response, as DlHead.
BackgroundHead(name, totalSize) ==
    /\ bg.at[name] = "head"
    /\ bg' = [bg EXCEPT !.at[name] = "clean", !.total[name] = totalSize]
    /\ UNCHANGED <<queueVars, cacheVars, cover>>

\* Its deleteFile(temp) settled and the transfer mode is chosen, as DlClean.
BackgroundClean(name) ==
    /\ bg.at[name] = "clean"
    /\ dir' = Unlink(dir, name, tempFileName)
    /\ bg' = [bg EXCEPT !.at[name] = IF bg.total[name] > 0 /\ bg.total[name] > CHUNK_THRESHOLD
                                     THEN "chunkGet" ELSE "get",
                        !.offset[name] = 0]
    /\ UNCHANGED <<queueVars, ev, dl, fs, gc, ev2, cover>>

\* A ranged response arrived, as DlChunkGet.
BackgroundChunkGet(name) ==
    /\ bg.at[name] = "chunkGet"
    /\ \E status \in ChunkStatuses :
         bg' = IF ChunkStatusThrows(status)
               THEN [bg EXCEPT !.at[name] = "cleanup"]
               ELSE [bg EXCEPT !.at[name] = "chunkWrite",
                               !.resp[name] = RangeLength(bg.offset[name], bg.total[name])]
    /\ UNCHANGED <<queueVars, cacheVars, cover>>

\* writeFile (first chunk) or appendFile resolved, as DlChunkWrite.
BackgroundChunkWrite(name) ==
    /\ bg.at[name] = "chunkWrite"
    /\ dir' = IF bg.offset[name] = 0
              THEN WriteFile(dir, CacheFile(name, tempFileName, bg.resp[name], Now(dir), bg.total[name]))
              ELSE AppendFile(dir, name, tempFileName, bg.resp[name], bg.total[name])
    /\ bg' = [bg EXCEPT !.offset[name] = @ + CHUNK_SIZE,
                        !.at[name] = IF bg.offset[name] + CHUNK_SIZE < bg.total[name]
                                     THEN "chunkGet" ELSE "rename"]
    /\ UNCHANGED <<queueVars, ev, dl, fs, gc, ev2, cover>>

\* The whole-body response arrived, as DlGet.
BackgroundGet(name) ==
    /\ bg.at[name] = "get"
    /\ \E status \in BodyStatuses,
          body \in IF bg.total[name] > 0 THEN {bg.total[name]} ELSE UnknownBodySizes :
         bg' = IF BodyStatusThrows(status)
               THEN [bg EXCEPT !.at[name] = "cleanup"]
               ELSE [bg EXCEPT !.at[name] = "write", !.resp[name] = body]
    /\ UNCHANGED <<queueVars, cacheVars, cover>>

\* writeFile of the whole body resolved, as DlWrite.
BackgroundWrite(name) ==
    /\ bg.at[name] = "write"
    /\ dir' = WriteFile(dir, CacheFile(name, tempFileName, bg.resp[name], Now(dir), bg.resp[name]))
    /\ bg' = [bg EXCEPT !.at[name] = "rename"]
    /\ UNCHANGED <<queueVars, ev, dl, fs, gc, ev2, cover>>

\* rename resolved, or rejected for want of the temp file, as DlRename.
BackgroundRename(name) ==
    /\ bg.at[name] = "rename"
    /\ IF Exists(dir, name, tempFileName)
       THEN dir' = Rename(dir, name) /\ bg' = [bg EXCEPT !.at[name] = "uri"]
       ELSE dir' = dir /\ bg' = [bg EXCEPT !.at[name] = "cleanup"]
    /\ UNCHANGED <<queueVars, ev, dl, fs, gc, ev2, cover>>

\* getUri resolved and downloadToCache returned; downloadInBackground, for
\* the chapter being played, awaits getCachedFile once more (which deletes an
\* empty file) and ends.
BackgroundReturns(name, isCurrent) ==
    /\ bg.at[name] = "uri"
    /\ LET k == FileAt(dir, name, FALSE)
       IN  dir' = IF isCurrent /\ k # 0 /\ IsEmptyFile(dir[k].size)
                  THEN Unlink(dir, name, FALSE) ELSE dir
    /\ bg' = [bg EXCEPT !.at[name] = "idle"]
    /\ UNCHANGED <<queueVars, ev, dl, fs, gc, ev2, cover>>

\* The catch block of downloadToCache deleted the temp file and threw; the
\* catch block of downloadInBackground logged the error.
BackgroundCleanup(name) ==
    /\ bg.at[name] = "cleanup"
    /\ dir' = Unlink(dir, name, tempFileName)
    /\ bg' = [bg EXCEPT !.at[name] = "idle"]
    /\ UNCHANGED <<queueVars, ev, dl, fs, gc, ev2, cover>>

\* ------------------------------------------------------------ cover urls
\* A url is the sequence of its parts: a scheme, the labels of the host, then
\* the parts of the path and the query.  startsWith and includes are taken
\* on the parts, as the code takes them on the characters.
HostParts == {"srv", ".evil", "cdn"}

\* /^https?:\/\//i.test(url) || url.startsWith('//')
IsAbsolute(url) == url # <<>> /\ Head(url) \in {"http://", "https://", "HTTPS://", "//"}

\* url.startsWith(prefix)
StartsWith(url, prefix) == Len(prefix) <= Len(url) /\ SubSeq(url, 1, Len(prefix)) = prefix

\* baseUrl.replace(/\/$/, '')
CleanBaseUrl(baseUrl) ==
    IF baseUrl # <<>> /\ baseUrl[Len(baseUrl)] = "/"
    THEN SubSeq(baseUrl, 1, Len(baseUrl) - 1) ELSE baseUrl

\* The cover url startDownload and redownloadCover hand to
\* electronAPI.downloadCover: a relative url is put behind the base, and the
\* token is added to a url that was relative or starts with the base, when
\* there is a token and the url has no 'token=' in it.
CoverDownloadUrl(coverUrl, baseUrl, token) ==
    LET cleanBaseUrl == CleanBaseUrl(baseUrl)
        isAbsolute == IsAbsolute(coverUrl)
        resolved == IF ~isAbsolute
                    THEN cleanBaseUrl \o (IF Head(coverUrl) = "/" THEN <<>> ELSE <<"/">>) \o coverUrl
                    ELSE coverUrl
    IN  IF (~isAbsolute \/ StartsWith(resolved, cleanBaseUrl)) /\ token # ""
              /\ ~Includes(resolved, <<"token=">>)
        THEN resolved \o <<IF Includes(resolved, <<"?">>) THEN "&" ELSE "?", "token=", token>>
        ELSE resolved

\* The cover urls of tasks: relative to the server, with or without the
\* leading slash, or absolute with a scheme and a host; with or without a
\* query.
CoverPaths ==
    {<<"/", "c.jpg">>, <<"/", "c.jpg", "?", "v=1">>, <<"/", "c.jpg", "?", "token=", "OLD">>}

CoverHosts == {<<"srv">>, <<"srv", ".evil">>, <<"cdn">>}

CoverUrls ==
    CoverPaths \cup {Tail(path) : path \in CoverPaths}
        \cup {<<scheme>> \o host \o path :
                 scheme \in {"http://", "https://", "HTTPS://", "//"},
                 host \in CoverHosts, path \in CoverPaths}

\* authStore.activeUrl || authStore.serverUrl: the server is https://srv,
\* stored with or without a trailing slash.
BaseUrls == {<<"https://", "srv">>, <<"https://", "srv", "/">>}

\* authStore.token
Tokens == {"TOKEN"}

CoverIdle == [pc |-> "idle", coverUrl |-> <<>>, baseUrl |-> <<>>, token |-> "", out |-> <<>>]

\* startDownload on Electron, the chapter downloaded, for a task that has a
\* coverUrl: the url is resolved and electronAPI.downloadCover called.
StartDownloadCover ==
    /\ cover.pc = "task"
    /\ cover' = [cover EXCEPT !.pc = "downloadCover",
                              !.out = CoverDownloadUrl(cover.coverUrl, cover.baseUrl, cover.token)]
    /\ UNCHANGED <<queueVars, cacheVars, bg>>

\* redownloadCover(taskId) for a task that has a coverUrl, on Electron.
RedownloadCover ==
    /\ cover.pc \in {"task", "downloadCover"}
    /\ cover' = [cover EXCEPT !.pc = "redownloadCover",
                              !.out = CoverDownloadUrl(cover.coverUrl, cover.baseUrl, cover.token)]
    /\ UNCHANGED <<queueVars, cacheVars, bg>>

\* ----------------------------------------------------------- directories
\* Sizes and modification times of the files of a small directory.
SizeChoices == {0, 1, 1024, 3072}

\* A temp file an interrupted download left behind.
StaleTemp == CacheFile(1, TRUE, 3, 1, 7)

\* Directories of up to MaxSmall files, file i named i, any sizes, any
\* modification times (ties included), in any readdir order.
FreeDirs ==
    UNION {[1..n -> {CacheFile(0, FALSE, sz, mt, sz) : sz \in SizeChoices, mt \in 1..MaxSmall}]
               : n \in 0..MaxSmall}

NameFiles(d) == [i \in 1..Len(d) |-> [d[i] EXCEPT !.name = i]]

SmallDirs == {NameFiles(d) \o t : d \in FreeDirs, t \in {<<>>, <<StaleTemp>>}}

\* A directory of n files with distinct modification times, listed oldest
\* first or newest first, all of one size but for the file at heavy (if any).
LargeDir(n, size, newestFirst, heavy, heavySize) ==
    [i \in 1..n |->
        LET sz == IF i = heavy THEN heavySize ELSE size
        IN  CacheFile(i, FALSE, sz, IF newestFirst THEN n + 1 - i ELSE i, sz)]

\* Directories about MAX_FILES files large.
LargeDirs ==
    {LargeDir(n, size, newestFirst, heavy, heavySize) :
        n \in (MAX_FILES - 1)..(MAX_FILES + MaxOver),
        size \in {1, 41},
        newestFirst \in BOOLEAN,
        heavy \in 0..(MAX_FILES + MaxOver),
        heavySize \in {1024, 3072}}

\* Chapters cached before, under names no task of the queue has: none, or
\* two that fill the cache to its size limit.
OtherChapters ==
    {<<>>,
     <<CacheFile(MaxTasks + 1, FALSE, 1024, 1, 1024), CacheFile(MaxTasks + 2, FALSE, 1024, 2, 1024)>>}

\* Chapters cached before that fill the cache to its size limit exactly,
\* the oldest a small one; or none.
FullCaches ==
    {<<>>,
     <<CacheFile(MaxNames + 1, FALSE, 1, 1, 1),
       CacheFile(MaxNames + 2, FALSE, 1023, 2, 1023),
       CacheFile(MaxNames + 3, FALSE, 1024, 3, 1024)>>}

\* A valid file of each name and a stale temp file, each there or not.
DownloadDirs ==
    {SelectSeq(<<CacheFile(1, FALSE, 1, 1, 1), StaleTemp, CacheFile(2, FALSE, 2, 3, 2)>>,
               LAMBDA f : <<f.name, f.tmp>> \in keep) :
        keep \in SUBSET {<<1, FALSE>>, <<1, TRUE>>, <<2, FALSE>>}}

\* ---------------------------------------------------------- specifications
\* The store as created, nothing persisted.
InitQueue ==
    /\ tasks = <<>>
    /\ activeTaskId = NULL
    /\ inflight = [id \in TaskIds |-> 0]
    /\ boot = [done |-> TRUE, orphans |-> {}, waiting |-> {}]
    /\ last = [op |-> "create", id |-> NULL, was |-> "absent"]
    /\ calls = 0
    /\ ahead = [id \in TaskIds |-> {}]

\* No cache call is running.
CacheIdle ==
    /\ ev = EvIdle
    /\ dl = DlIdle
    /\ fs = [op |-> "none"]
    /\ gc = GcIdle
    /\ ev2 = EvIdle
    /\ bg = BgIdle
    /\ cover = CoverIdle

Init == InitQueue /\ dir = <<>> /\ CacheIdle

Settle ==
    \E id \in TaskIds :
        \/ TransferSucceed(id)
        \/ \E msg \in ErrorMessages : TransferFail(id, msg)
        \/ \E p \in ProgressValues : UpdateTaskProgress(id, p)

\* The store under every public operation.
Next ==
    \/ \E id \in TaskIds : AddTask(id)
    \/ \E id \in TaskIds : RetryTask(id)
    \/ \E id \in TaskIds : RemoveTask(id)
    \/ ClearCompleted
    \/ ClearAllTasks
    \/ Settle

Spec == Init /\ [][Next]_vars

\* The store when the only calls are addTask.
NextAdd ==
    \/ \E id \in TaskIds : AddTask(id)
    \/ Settle

SpecAdd == Init /\ [][NextAdd]_vars

\* ------------------------------------------------------------ restart
\* A task as the persisted list can hold it.
PersistedTasks(id) ==
    {[id |-> id, status |-> "pending", progress |-> 0, error |-> NoError],
     [id |-> id, status |-> "downloading", progress |-> 0, error |-> NoError],
     [id |-> id, status |-> "downloading", progress |-> 50, error |-> NoError],
     [id |-> id, status |-> "completed", progress |-> 100, error |-> NoError]}
    \cup {[id |-> id, status |-> "failed", progress |-> 0, error |-> m] : m \in ErrorMessages}

\* The lists the persist middleware can rehydrate: tasks with distinct ids.
PersistedLists ==
    UNION {{ts \in [1..n -> UNION {PersistedTasks(id) : id \in TaskIds}] :
               \A i, j \in 1..n : i # j => ts[i].id # ts[j].id} : n \in 0..MaxTasks}

\* The store on Electron: addTask calls and the settling of the native
\* downloads.
NextElectron ==
    \/ \E id \in TaskIds : AddTask(id)
    \/ \E id \in TaskIds : ElectronTransferEnds(id)

SpecElectron == Init /\ [][NextElectron]_vars

\* The process starts: only `tasks` is rehydrated (partialize), no transfer
\* of the killed process is alive.
InitRestart ==
    /\ tasks \in PersistedLists
    /\ activeTaskId = NULL
    /\ inflight = [id \in TaskIds |-> 0]
    /\ \E orphans \in {{tasks[i].id : i \in {j \in 1..Len(tasks) : tasks[j].status = "downloading"}}} :
         boot = [done |-> FALSE, orphans |-> orphans, waiting |-> orphans]
    /\ last = [op |-> "create", id |-> NULL, was |-> "absent"]
    /\ calls = 0
    /\ ahead = [id \in TaskIds |-> {}]
    /\ dir = <<>>
    /\ CacheIdle

\* AppInitializer's mount effect calls initializeQueue.
InitializeQueue ==
    /\ ~boot.done
    /\ \E st \in {InitializeQueueOp(Store)} :
        /\ tasks' = st.tasks
        /\ activeTaskId' = st.activeTaskId
        /\ inflight' = st.inflight
        /\ boot' = [boot EXCEPT !.done = TRUE, !.waiting = StillWaiting(st)]
        /\ ahead' = AheadAfter(st.tasks, "initializeQueue", NULL)
    /\ last' = Ran("initializeQueue", NULL)
    /\ UNCHANGED <<calls, cacheVars, bg, cover>>

TransferEnds(id) ==
    \/ TransferSucceed(id)
    \/ \E msg \in ErrorMessages : TransferFail(id, msg)

NextRestart ==
    \/ InitializeQueue
    \/ Settle

\* The mount effect runs, and every started transfer terminates.
SpecRestart ==
    /\ InitRestart
    /\ [][NextRestart]_vars
    /\ WF_vars(InitializeQueue)
    /\ WF_vars(\E id \in TaskIds : TransferEnds(id))

\* The store when the only calls are addTask and retryTask, finitely many of
\* them, and every started transfer terminates.
NextDrain ==
    \/ \E id \in TaskIds : AddTask(id)
    \/ \E id \in TaskIds : RetryTask(id)
    \/ Settle

SpecDrain ==
    /\ Init
    /\ [][NextDrain]_vars
    /\ WF_vars(\E id \in TaskIds : TransferEnds(id))

\* AppInitializer stays mounted around the routes and its effect lists
\* location.pathname among its dependencies: the effect runs again, and
\* calls initializeQueue again, each time the route changes.
LocationChanges == Call(InitializeQueueOp(Store), "initializeQueue", NULL)

\* The store when tasks are added and the user moves between pages.
NextNavigate ==
    \/ \E id \in TaskIds : AddTask(id)
    \/ LocationChanges
    \/ Settle

SpecNavigate == Init /\ [][NextNavigate]_vars

\* The store after a restart when the only calls are retryTask, made for
\* tasks that are 'failed'.
NextRetry ==
    \/ InitializeQueue
    \/ \E id \in TaskIds : StatusOf(tasks, id) = "failed" /\ RetryTask(id)
    \/ Settle

SpecRetry == InitRestart /\ [][NextRetry]_vars

\* The store when tasks are only added, each id once.
NextFifo ==
    \/ \E id \in TaskIds : StatusOf(tasks, id) = "absent" /\ AddTask(id)
    \/ Settle

SpecFifo == Init /\ [][NextFifo]_vars

\* One pass of ensureCacheLimits over any directory.
InitEvict == InitQueue /\ CacheIdle /\ dir \in SmallDirs \cup LargeDirs

NextEvict == EvictScan \/ EvictDelete

SpecEvict == InitEvict /\ [][NextEvict]_vars

\* One pass of ensureCacheLimits with a file system that can refuse a
\* deletion.
NextEvictFaulty ==
    \/ ev.pc = "idle" /\ EvictScan
    \/ EvictDelete
    \/ EvictDeleteRejects

SpecEvictFaulty == InitEvict /\ [][NextEvictFaulty]_vars

\* removeCachedFile calls.
InitRemove == InitQueue /\ CacheIdle /\ dir \in SmallDirs

NextRemove == \E name \in FileNames : RemoveCachedFile(name)

SpecRemove == InitRemove /\ [][NextRemove]_vars

\* getCachedFile calls, one at a time.
InitLookup == InitQueue /\ CacheIdle /\ dir \in SmallDirs

NextLookup ==
    \/ \E name \in FileNames : GcStat(name)
    \/ GcDelete

SpecLookup == InitLookup /\ [][NextLookup]_vars

\* The queue on the mobile path with the downloads it makes, of chapters
\* below the chunk threshold, and the eviction pass the first of them starts.
InitTask == InitQueue /\ CacheIdle /\ dir \in OtherChapters

NextTask ==
    \/ \E id \in FileNames : calls < MaxNames /\ AddTask(id)
    \/ \E id \in FileNames : TaskDownloadStarts(id)
    \/ DlEnsureDir
    \/ \E response \in {<<200, 1>>, <<404, 0>>} : DlHead(response[1], response[2])
    \/ DlClean
    \/ DlGet
    \/ DlWrite
    \/ DlRename
    \/ DlGetUri
    \/ DlThrow
    \/ DlCleanup
    \/ \E id \in FileNames : TaskTransferSettles(id)
    \/ TriggeredEvictScan
    \/ EvictDelete
    \/ EvictDeleteRejects

SpecTask == InitTask /\ [][NextTask]_vars

\* One download of chapter 1, sizes in bytes, for probed sizes about the
\* threshold and about a whole number of chunks, into a cache with or
\* without a stale temp file of the chapter.
ByteSizes ==
    {0, 1, ThresholdBytes, ThresholdBytes + 1, ThresholdBytes + ChunkBytes - 1,
     ThresholdBytes + ChunkBytes, ThresholdBytes + ChunkBytes + 1}

InitBytes ==
    /\ InitQueue
    /\ CacheIdle
    /\ dir \in {<<>>, <<StaleTemp>>}

StartBytes ==
    /\ dl.pc = "idle"
    /\ dl' = ByteRun(1)
    /\ UNCHANGED <<dir, ev, fs, gc, queueVars, ev2, bg, cover>>

NextBytes ==
    \/ StartBytes
    \/ DlEnsureDir
    \/ \E totalSize \in ByteSizes : DlHead(200, totalSize)
    \/ ByteClean
    \/ ByteChunkGet
    \/ ByteChunkWrite
    \/ DlGet
    \/ DlWrite
    \/ DlRename
    \/ DlGetUri
    \/ DlCleanup

SpecBytes == InitBytes /\ [][NextBytes]_vars

\* Two downloads one after the other, each answered with 200 and a body of
\* 1 MiB, and the pass each of them starts after its rename: ev is the pass
\* of the first download, ev2 that of the second.  A pass takes its steps
\* whenever its awaits resolve, so the two may interleave with each other
\* and with the second download.
InitOverlap == InitQueue /\ CacheIdle /\ dir \in FullCaches

\* The k-th download has renamed its file and called ensureCacheLimits.
PassStarted(k) == dl.runs > k \/ (dl.runs = k /\ dl.spawned > 0)

NextOverlap ==
    \/ \E name \in FileNames : dl.runs < 2 /\ DlStart(name)
    \/ DlEnsureDir
    \/ DlHead(200, 1)
    \/ DlClean
    \/ DlGet /\ dl'.pc = "write"
    \/ DlWrite
    \/ DlRename
    \/ DlGetUri
    \/ PassStarted(1) /\ ev.pc = "idle" /\ EvictScan
    \/ EvictDelete
    \/ PassStarted(2) /\ ev2.pc = "idle" /\ Evict2Scan
    \/ Evict2Delete

SpecOverlap == InitOverlap /\ [][NextOverlap]_vars

\* The cover download of a task, for every cover url, base and token.
InitCover ==
    /\ InitQueue
    /\ dir = <<>>
    /\ ev = EvIdle /\ dl = DlIdle /\ fs = [op |-> "none"] /\ gc = GcIdle /\ ev2 = EvIdle
    /\ bg = BgIdle
    /\ \E coverUrl \in CoverUrls, baseUrl \in BaseUrls, token \in Tokens :
         cover = [CoverIdle EXCEPT !.pc = "task", !.coverUrl = coverUrl,
                                  !.baseUrl = baseUrl, !.token = token]

NextCover == StartDownloadCover \/ RedownloadCover

SpecCover == InitCover /\ [][NextCover]_vars

\* The queue and the player on the same device: the queue's tasks download
\* into the cache while the player caches chapters in the background.
NextPlayer ==
    \/ \E id \in FileNames : calls < MaxNames /\ AddTask(id)
    \/ \E id \in FileNames : TaskDownloadStarts(id)
    \/ DlEnsureDir
    \/ \E response \in {<<200, 1>>} : DlHead(response[1], response[2])
    \/ DlClean
    \/ DlGet
    \/ DlWrite
    \/ DlRename
    \/ DlGetUri
    \/ DlCleanup
    \/ \E id \in FileNames : TaskTransferSettles(id)
    \/ \E name \in FileNames : DownloadInBackground(name)
    \/ \E name \in FileNames : BackgroundCacheChecked(name)
    \/ \E name \in FileNames : BackgroundHead(name, 1)
    \/ \E name \in FileNames : BackgroundClean(name)
    \/ \E name \in FileNames : BackgroundGet(name)
    \/ \E name \in FileNames : BackgroundWrite(name)
    \/ \E name \in FileNames : BackgroundRename(name)
    \/ \E name \in FileNames, isCurrent \in BOOLEAN : BackgroundReturns(name, isCurrent)
    \/ \E name \in FileNames : BackgroundCleanup(name)

SpecPlayer == InitTask /\ [][NextPlayer]_vars

\* A download of chapter 1 and the player's background download of the same
\* chapter, into an empty cache; the probe reports a size of one chunk more
\* than the threshold to both.  The player's connection is the slower one:
\* the responses to its ranged requests arrive when the other download has
\* ended.
NextSameName ==
    \/ dl.runs = 0 /\ DlStart(1)
    \/ DlEnsureDir
    \/ DlHead(200, CHUNK_THRESHOLD + 1)
    \/ DlClean
    \/ DlChunkGet
    \/ DlChunkWrite
    \/ DlRename
    \/ DlGetUri
    \/ DlCleanup
    \/ bg.runs = 0 /\ DownloadInBackground(1)
    \/ BackgroundCacheChecked(1)
    \/ BackgroundHead(1, CHUNK_THRESHOLD + 1)
    \/ BackgroundClean(1)
    \/ dl.pc \in {"done", "failed"} /\ BackgroundChunkGet(1)
    \/ BackgroundChunkWrite(1)
    \/ BackgroundRename(1)
    \/ \E isCurrent \in BOOLEAN : BackgroundReturns(1, isCurrent)
    \/ BackgroundCleanup(1)

SpecSameName == Init /\ [][NextSameName]_vars

\* The queue downloads one chapter that is larger than the cache may be, by
\* 1 MiB, into an empty cache, with the pass the download starts.
NextHuge ==
    \/ calls = 0 /\ AddTask(1)
    \/ TaskDownloadStarts(1)
    \/ DlEnsureDir
    \/ DlHead(200, MAX_CACHE_SIZE_BYTES + 1)
    \/ DlClean
    \/ DlChunkGet
    \/ DlChunkWrite
    \/ DlRename
    \/ DlGetUri
    \/ DlCleanup
    \/ TaskTransferSettles(1)
    \/ TriggeredEvictScan
    \/ EvictDelete

SpecHuge == Init /\ [][NextHuge]_vars

\* The queue and the downloads of its tasks, with the downloads page
\* deleting tasks at any moment.
NextDelete ==
    \/ \E id \in FileNames : AddTask(id)
    \/ \E id \in FileNames : HandleDelete(id)
    \/ \E id \in FileNames : TaskDownloadStarts(id)
    \/ DlEnsureDir
    \/ \E response \in {<<200, 1>>, <<404, 0>>} : DlHead(response[1], response[2])
    \/ DlClean
    \/ DlGet
    \/ DlWrite
    \/ DlRename
    \/ DlGetUri
    \/ DlCleanup
    \/ \E id \in FileNames : TaskTransferSettles(id)

SpecDelete == InitTask /\ [][NextDelete]_vars

\* The queue with its removals and the downloads of its tasks into a cache
\* that holds other chapters.
NextClear ==
    \/ \E id \in FileNames : AddTask(id)
    \/ \E id \in FileNames : RemoveTask(id)
    \/ ClearCompleted
    \/ ClearHistory
    \/ \E id \in FileNames : TaskDownloadStarts(id)
    \/ DlEnsureDir
    \/ \E response \in {<<200, 1>>, <<404, 0>>} : DlHead(response[1], response[2])
    \/ DlClean
    \/ DlGet
    \/ DlWrite
    \/ DlRename
    \/ DlGetUri
    \/ DlCleanup
    \/ \E id \in FileNames : TaskTransferSettles(id)

SpecClear == InitTask /\ [][NextClear]_vars

\* downloadToCache calls, one at a time.
InitDownload == InitQueue /\ CacheIdle /\ dir \in DownloadDirs

NextDownload ==
    \/ \E name \in FileNames : DlStart(name)
    \/ DlEnsureDir
    \/ \E response \in HeadResponses : DlHead(response[1], response[2])
    \/ DlClean
    \/ DlChunkGet
    \/ DlChunkWrite
    \/ DlGet
    \/ DlWrite
    \/ DlRename
    \/ DlGetUri
    \/ DlThrow
    \/ DlTornWrite
    \/ DlTornRename
    \/ DlCleanup

SpecDownload == InitDownload /\ [][NextDownload]_vars

\* One download into a cache that holds another chapter, with or without a
\* stale temp file, and getCachedFile called at any moment.
InitVisible ==
    /\ InitQueue
    /\ CacheIdle
    /\ dir \in {<<CacheFile(MaxNames, FALSE, 2, 1, 2)>> \o t : t \in {<<>>, <<StaleTemp>>}}

NextVisible ==
    \/ \E name \in FileNames : dl.runs = 0 /\ DlStart(name)
    \/ DlEnsureDir
    \/ \E response \in HeadResponses : DlHead(response[1], response[2])
    \/ DlClean
    \/ DlChunkGet
    \/ DlChunkWrite
    \/ DlGet
    \/ DlWrite
    \/ DlRename
    \/ DlGetUri
    \/ DlThrow
    \/ DlCleanup
    \/ \E name \in FileNames : GcStat(name)
    \/ GcDelete

SpecVisible == InitVisible /\ [][NextVisible]_vars

\* ------------------------------------------------------------------ claims
TaskOf(ts, id) ==
    LET k == FindTask(ts, LAMBDA t : t.id = id)
    IN  IF k = 0 THEN [id |-> id, status |-> "absent"] ELSE ts[k]

Downloading == {i \in 1..Len(tasks) : tasks[i].status = "downloading"}

Pending == {i \in 1..Len(tasks) : tasks[i].status = "pending"}

RECURSIVE SumInflight(_)
SumInflight(ids) ==
    IF ids = {} THEN 0
    ELSE LET id == CHOOSE x \in ids : TRUE IN inflight[id] + SumInflight(ids \ {id})

\* C1: under addTask calls and the completions and failures of the transfers
\* they start, at most one task has status 'downloading'.
SingleFlight == Cardinality(Downloading) <= 1

\* A transfer has ended, the next task is being transferred and a third waits.
SingleFlightWitness ==
    /\ last.op \in {"transferSucceed", "transferFail"}
    /\ Cardinality(Downloading) = 1
    /\ Pending # {}

\* C2: under every public operation, at most one task has status
\* 'downloading' and at most one transfer started by startDownload is in flight.
OneActiveTransfer ==
    /\ Cardinality(Downloading) <= 1
    /\ SumInflight(TaskIds) <= 1

\* C3: tasks are started in the order they were added.  The list holds the
\* newest task first and nothing is removed or retried, so a task at a higher
\* index was added earlier: no task is being transferred while a task added
\* before it still waits.
FifoOrder ==
    \A i, j \in 1..Len(tasks) :
        (i < j /\ tasks[i].status = "downloading") => tasks[j].status # "pending"

\* C6: after initializeQueue no task is left 'downloading' without a transfer
\* (it was set back to 'pending', and started again if it came first), and a
\* task the rehydrated list held as 'downloading' is eventually 'downloading'
\* again, with a transfer of its own: no orphan is left waiting.
CrashRecovery ==
    /\ [](boot.done => \A i \in Downloading :
                           inflight[tasks[i].id] > 0 \/ tasks[i].id \notin boot.orphans)
    /\ <>(boot.done /\ boot.waiting = {})

\* An orphaned task waited as 'pending' behind another task and was started
\* when that one's transfer ended.
CrashRecoveryWitness ==
    /\ last.op \in {"transferSucceed", "transferFail"}
    /\ \E id \in boot.orphans :
          /\ id # last.id
          /\ StatusOf(tasks, id) = "downloading"
          /\ inflight[id] = 1
          /\ activeTaskId = id

\* C7 as claimed: retryTask on a 'failed' task leaves it 'pending' with
\* progress 0 and no error, and changes no other task.
RetryLeavesPending ==
    [][(last'.op = "retryTask" /\ last'.was = "failed" /\ calls' = calls + 1) =>
          /\ TaskOf(tasks', last'.id) = NewTask(last'.id)
          /\ \A id \in TaskIds \ {last'.id} : TaskOf(tasks', id) = TaskOf(tasks, id)]_vars

\* C7 as amended: the task is left with progress 0 and no error; its status
\* is 'pending' when the active-task marker is set and 'downloading' when it
\* is not, processQueue having started it; no other task changes.
RetryResets ==
    [][(last'.op = "retryTask" /\ last'.was = "failed" /\ calls' = calls + 1) =>
          /\ TaskOf(tasks', last'.id) =
                [NewTask(last'.id) EXCEPT
                    !.status = IF activeTaskId = NULL THEN "downloading" ELSE "pending"]
          /\ \A id \in TaskIds \ {last'.id} : TaskOf(tasks', id) = TaskOf(tasks, id)]_vars

\* retryTask ran on a failed task while another task held the marker: the
\* retried task waits, reset.
RetryResetsWitness ==
    /\ last.op = "retryTask"
    /\ last.was = "failed"
    /\ activeTaskId \notin {NULL, last.id}
    /\ TaskOf(tasks, last.id) = NewTask(last.id)

Range(seq) == {seq[i] : i \in 1..Len(seq)}

\* The files ensureCacheLimits read when the pass started.
FilesBefore == GetCacheStats(ev.before).files

FilesNow == GetCacheStats(dir).files

\* C4: every final-named file holds the whole of a resource, never a part of
\* one; and while or after a download that failed at the probe, a chunk, the
\* whole-body fetch, a write, an append or the rename, the final-named file
\* is absent or is what it was when the download was called, the prior
\* version.
AtomicDownload ==
    /\ \A i \in 1..Len(dir) : ~dir[i].tmp => dir[i].size = dir[i].whole
    /\ dl.failedAt \in {"ensureDir", "head", "chunkGet", "chunkWrite", "get", "write", "rename"}
          => FinalOf(dir, dl.name) \in {<<>>, dl.before}

\* A chunked download over a prior version failed at an append, after chunks
\* were written; the catch block has run and the prior version is there.
AtomicDownloadWitness ==
    /\ dl.pc = "failed"
    /\ dl.failedAt = "chunkWrite"
    /\ dl.offset > 0
    /\ dl.before # <<>>
    /\ FinalOf(dir, dl.name) = dl.before
    /\ ~Exists(dir, dl.name, tempFileName)

\* C5: once ensureCacheLimits has returned, the non-temp files are at most
\* MAX_FILES and their total size is at most MAX_CACHE_SIZE_BYTES, whatever
\* the files were.
EvictionBound ==
    ev.pc = "returned" =>
        /\ Len(FilesNow) <= MAX_FILES
        /\ SumSizes(FilesNow) <= MAX_CACHE_SIZE_BYTES

\* A pass returned that found both limits exceeded and, the count pass done,
\* the size limit still exceeded.
EvictionBoundWitness ==
    /\ ev.pc = "returned"
    /\ Len(FilesBefore) > MAX_FILES
    /\ Len(FilesNow) < MAX_FILES
    /\ SumSizes(FilesNow) + 41 > MAX_CACHE_SIZE_BYTES

\* C8 as claimed: removeCachedFile on an absent file returns true and leaves
\* the cache as it was.
IdempotentDelete ==
    [][\A name \in FileNames :
          RemoveCachedFileAbsent(name) => (fs'.result = TRUE /\ dir' = dir)]_vars

\* C9: a pass that found N > MAX_FILES files of distinct modification times
\* and a total size within the limit leaves, when it returns, exactly the
\* MAX_FILES newest: the N - MAX_FILES oldest are gone and nothing else is.
CountOnlyEviction ==
    LET before == FilesBefore
        now == FilesNow
        N == Len(before)
        Older(f) == {g \in Range(before) : g.mtime < f.mtime}
    IN  (/\ ev.pc = "returned"
         /\ N > MAX_FILES
         /\ SumSizes(before) <= MAX_CACHE_SIZE_BYTES
         /\ Cardinality({f.mtime : f \in Range(before)}) = N)
        => /\ Range(now) = {f \in Range(before) : Cardinality(Older(f)) >= N - MAX_FILES}
           /\ Len(now) = MAX_FILES

\* The pass returned over MAX_FILES + 1 files of 1 MiB: the oldest is gone,
\* MAX_FILES are left.
CountOnlyEvictionWitness ==
    /\ ev.pc = "returned"
    /\ Len(ev.before) = MAX_FILES + 1
    /\ \A i \in 1..Len(ev.before) : ev.before[i].size = 1
    /\ Len(dir) = MAX_FILES
    /\ \A i \in 1..Len(dir) : dir[i].mtime > 1

\* C10: a pass that found a single file, larger than MAX_CACHE_SIZE_BYTES,
\* leaves no file when it returns.
SingleHugeFile ==
    (/\ ev.pc = "returned"
     /\ Len(FilesBefore) = 1
     /\ FilesBefore[1].size > MAX_CACHE_SIZE_BYTES)
    => /\ FilesNow = <<>>
       /\ Len(ev.before) = 1 => dir = <<>>

\* The pass returned over a directory of one file of 3 GiB, now empty.
SingleHugeFileWitness ==
    /\ ev.pc = "returned"
    /\ Len(ev.before) = 1
    /\ ev.before[1].size = 3072
    /\ dir = <<>>

\* C11: when getCachedFile has returned, its result is the uri exactly when
\* the call found the final-named file with a size above zero, and the
\* directory is then as it was; a file found with size zero is reported absent
\* and is gone, unless deleteFile refused; with no file the result is
\* null and the directory is as it was.
CachedFileLookup ==
    (gc.pc = "returned" /\ fs.op = "getCachedFile") =>
        LET found == FinalOf(gc.before, gc.name)
        IN  /\ fs.name = gc.name
            /\ fs.result = UriOf(gc.name) <=> (found # <<>> /\ found[1].size > 0)
            /\ fs.result # UriOf(gc.name) => fs.result = NullUri
            /\ (found = <<>> \/ found[1].size > 0) => dir = gc.before
            /\ (found # <<>> /\ found[1].size = 0) =>
                   dir = IF gc.refused THEN gc.before ELSE Unlink(gc.before, gc.name, FALSE)

\* An empty file was looked up, deleted and reported absent, beside another
\* file that stayed.
CachedFileLookupWitness ==
    /\ gc.pc = "returned"
    /\ fs.op = "getCachedFile"
    /\ fs.result = NullUri
    /\ Exists(gc.before, gc.name, FALSE)
    /\ ~Exists(dir, gc.name, FALSE)
    /\ dir # <<>>

AddTaskExistingNoOp ==
    [][(/\ last'.op = "addTask"
        /\ last'.was \in {"pending", "downloading", "completed"}
        /\ calls' = calls + 1) =>
          /\ tasks' = tasks
          /\ activeTaskId' = activeTaskId
          /\ inflight' = inflight]_vars

\* addTask ran for a completed task while the queue was idle: the task is
\* still completed and nothing is in flight.
AddTaskExistingNoOpWitness ==
    /\ last.op = "addTask"
    /\ last.was = "completed"
    /\ StatusOf(tasks, last.id) = "completed"
    /\ activeTaskId = NULL
    /\ SumInflight(TaskIds) = 0

\* C14: no task waits as 'pending' while no transfer is in flight; and on
\* every step in which a transfer ends, by success or by failure, either one
\* of the tasks that were waiting is started (it is 'downloading', has the
\* marker and a transfer of its own) or none was waiting and the marker is
\* null.
ForwardProgress ==
    /\ [](Pending # {} => SumInflight(TaskIds) > 0)
    /\ [][last'.op \in {"transferSucceed", "transferFail"} =>
             LET waiting == {tasks[i].id : i \in Pending} \ {last'.id}
             IN  IF waiting = {}
                 THEN activeTaskId' = NULL
                 ELSE \E id \in waiting :
                         /\ StatusOf(tasks', id) = "downloading"
                         /\ activeTaskId' = id
                         /\ inflight'[id] = inflight[id] + 1]_vars

\* A transfer failed and a task that was waiting behind it is being
\* transferred, while another still waits.
ForwardProgressWitness ==
    /\ last.op = "transferFail"
    /\ StatusOf(tasks, last.id) = "failed"
    /\ activeTaskId \notin {NULL, last.id}
    /\ StatusOf(tasks, activeTaskId) = "downloading"
    /\ inflight[activeTaskId] = 1
    /\ Pending # {}

\* C15: on every step in which the transfer of a task fails, that task (if
\* the list still has it) is left 'failed' with the error's message; every
\* other task keeps its place and its fields, but for the waiting task the
\* queue starts next; and the run of startDownload is over.
FailureCaught ==
    [][last'.op = "transferFail" =>
          /\ last'.was # "absent" =>
                /\ TaskOf(tasks', last'.id).status = "failed"
                /\ TaskOf(tasks', last'.id).error \in ErrorMessages
          /\ Len(tasks') = Len(tasks)
          /\ \A i \in 1..Len(tasks) :
                tasks[i].id # last'.id =>
                    \/ tasks'[i] = tasks[i]
                    \/ /\ tasks[i].status = "pending"
                       /\ tasks'[i] = [tasks[i] EXCEPT !.status = "downloading"]
                       /\ activeTaskId' = tasks[i].id
          /\ inflight'[last'.id] = inflight[last'.id] - 1]_vars

\* A transfer failed: its task is 'failed' with a message, beside a completed
\* task and a task that is being transferred.
FailureCaughtWitness ==
    /\ last.op = "transferFail"
    /\ TaskOf(tasks, last.id).status = "failed"
    /\ TaskOf(tasks, last.id).error # NoError
    /\ \E i \in 1..Len(tasks) : tasks[i].status = "completed"
    /\ \E i \in 1..Len(tasks) : tasks[i].status = "downloading"

\* C16 as claimed: on the native path, when the chapter download succeeded
\* and the cover download failed, the task ends 'completed'.
CoverFailureIgnored ==
    [][(last'.op = "coverRejected" /\ last'.was # "absent") =>
          TaskOf(tasks', last'.id).status = "completed"]_vars

\* The files the pass chose to delete when it read the directory.
SelectedForEviction ==
    LET stats == GetCacheStats(ev.before)
    IN  IF stats.size > MAX_CACHE_SIZE_BYTES \/ Len(stats.files) > MAX_FILES
        THEN Range(PlanEviction(stats.files, stats.size))
        ELSE {}

\* C18 as claimed: when the pass has returned, every file it selected is
\* gone, but for the files whose deletion failed.
EvictionSkipsFailures ==
    ev.pc = "returned" =>
        \A f \in SelectedForEviction : f \in ev.rejected \/ ~Exists(dir, f.name, f.tmp)

\* C17 as claimed: a download that received a status outside 200..299 for
\* any of its requests does not succeed.
TransportErrorFails ==
    dl.pc = "done" => \A status \in dl.seen : status >= 200 /\ status < 300

\* The awaits of downloadToCache up to and including the rename.
StepsToRename == {"ensureDir", "head", "chunkGet", "chunkWrite", "get", "write", "rename"}

RemovalsFrame ==
    [][calls' = calls + 1 /\ last'.op \in {"removeTask", "clearCompleted", "clearHistory"} =>
          /\ last'.op = "removeTask" =>
                tasks' = SelectSeq(tasks, LAMBDA t : t.id # last'.id)
          /\ last'.op = "clearCompleted" =>
                tasks' = SelectSeq(tasks, LAMBDA t : t.status # "completed")
          /\ last'.op = "clearHistory" =>
                tasks' = SelectSeq(tasks, LAMBDA t : t.status # "failed")
          /\ activeTaskId' = activeTaskId
          /\ inflight' = inflight
          /\ dir' = dir
          /\ dl' = dl]_vars

\* removeTask took a 'completed' task off a list that keeps another task,
\* and the chapter's file is still in the cache.
RemovalsFrameWitness ==
    /\ last.op = "removeTask"
    /\ last.was = "completed"
    /\ StatusOf(tasks, last.id) = "absent"
    /\ Len(tasks) > 0
    /\ Exists(dir, last.id, FALSE)

\* C21: the statistics of the directory list no temp file and their size is
\* the directory's size less that of its temp files; the files a pass chose
\* hold no temp file, and no step of a pass removes or changes a temp file.
TempNeverEvicted ==
    /\ [](LET stats == GetCacheStats(dir)
          IN  /\ \A i \in 1..Len(stats.files) : ~stats.files[i].tmp
              /\ stats.size + SumSizes(SelectSeq(dir, LAMBDA f : f.tmp)) = SumSizes(dir))
    /\ [](\A f \in Range(ev.plan) \cup Range(ev2.plan) : ~f.tmp)
    /\ [][(ev' # ev \/ ev2' # ev2) =>
            SelectSeq(dir', LAMBDA f : f.tmp) = SelectSeq(dir, LAMBDA f : f.tmp)]_vars

\* A pass deleted a chapter and returned while a download had its temp file
\* written and not yet renamed; the temp file is there.
TempNeverEvictedWitness ==
    /\ ev.pc = "returned"
    /\ \E f \in Range(ev.before) : ~f.tmp /\ ~Exists(dir, f.name, f.tmp)
    /\ dl.pc = "rename"
    /\ Exists(ev.before, dl.name, tempFileName)
    /\ Exists(dir, dl.name, tempFileName)

\* The executions of downloadToCache the queue has in flight: the runs of
\* startDownload that await their transfer, less the one whose download has
\* returned or thrown already.
QueueTransfers ==
    Cardinality({id \in TaskIds : inflight[id] > 0 /\ ~(dl.task = id /\ dl.pc \in {"done", "failed"})})

\* The executions of downloadToCache the player has in flight.
PlayerTransfers == Cardinality({name \in FileNames : bg.at[name] \notin {"idle", "check"}})

\* C23 as claimed: the queue and the player together have at most one
\* execution of downloadToCache in flight.
OneCacheTransfer == QueueTransfers + PlayerTransfers <= 1

\* C27 as claimed: when the passes of two consecutive downloads have both
\* returned and the second download has returned, the cache is within its
\* limits.
OverlapBound ==
    (ev.pc = "returned" /\ ev2.pc = "returned" /\ dl.runs = 2 /\ dl.pc = "done") =>
        /\ SumSizes(FilesNow) <= MAX_CACHE_SIZE_BYTES
        /\ Len(FilesNow) <= MAX_FILES

\* The status changes of a task the claim allows; a restart, in addition,
\* takes 'downloading' back to 'pending'.
AllowedTransitions ==
    {<<"absent", "pending">>, <<"pending", "downloading">>, <<"downloading", "completed">>,
     <<"downloading", "failed">>, <<"failed", "pending">>}

\* From one list of tasks to the next, every task keeps its status, is
\* removed, or changes it along an allowed transition.
LegalChange(before, after, restart) ==
    \A id \in TaskIds :
        LET a == StatusOf(before, id)
            b == StatusOf(after, id)
        IN  \/ a = b
            \/ b = "absent"
            \/ <<a, b>> \in AllowedTransitions
            \/ restart /\ a = "downloading" /\ b = "pending"

\* The list a handler's first set() leaves, before its processQueue (which
\* makes the second): completeTask or failTask for a settling transfer, the
\* reset of retryTask, the insertion of addTask.
FirstSet(op, id) ==
    CASE op = "transferSucceed" -> CompleteTask(Store, id).tasks
      [] op = "transferFail" -> FailTask(Store, id, NoError).tasks
      [] op = "addTask" /\ StatusOf(tasks, id) = "absent" -> <<NewTask(id)>> \o tasks
      [] op = "addTask" /\ StatusOf(tasks, id) = "failed" ->
            MapTasks(tasks, LAMBDA t : IF t.id = id THEN [t EXCEPT !.status = "pending"] ELSE t)
      [] OTHER -> tasks

\* C22 as claimed: every set() a store operation makes changes the statuses
\* along pending -> downloading, downloading -> completed, downloading ->
\* failed and failed -> pending only.
StatusTransitions ==
    [][tasks' # tasks =>
          \E mid \in {FirstSet(last'.op, last'.id)} :
              /\ LegalChange(tasks, mid, FALSE)
              /\ LegalChange(mid, tasks', FALSE)]_vars

\* A download of a name that had no cached version stands at an await up
\* to and including the rename.
FirstDownloadWriting == dl.pc \in StepsToRename \cup {"clean"} /\ dl.before = <<>>

\* C24: while a download of a name that had no cached version stands at an
\* await up to and including the rename, no file has the final name, the
\* statistics do not list it, and a getCachedFile of the name returns null.
VisibleAtRename ==
    /\ [](FirstDownloadWriting =>
            /\ ~Exists(dir, dl.name, FALSE)
            /\ \A f \in Range(GetCacheStats(dir).files) : f.name # dl.name)
    /\ [][(FirstDownloadWriting /\ gc' # gc /\ gc'.pc = "returned" /\ gc'.name = dl.name) =>
             fs'.result = NullUri]_vars

\* getCachedFile read the directory while the download's temp file was
\* written and not yet renamed, and returned null.
VisibleAtRenameWitness ==
    /\ dl.pc = "rename"
    /\ dl.before = <<>>
    /\ Exists(dir, dl.name, tempFileName)
    /\ gc.pc = "returned"
    /\ gc.name = dl.name
    /\ gc.before = dir
    /\ fs.op = "getCachedFile"
    /\ fs.result = NullUri

\* C25 as claimed: every file of the directory is a temp file or a whole
\* file of size greater than zero.
NoEmptyFinalFile ==
    \A f \in Range(dir) : f.tmp \/ (f.size > 0 /\ f.size = f.whole)

\* C26 as claimed: a task that is 'failed' keeps that status in every step
\* but a retryTask or an addTask of its id and its removal from the list.
NoAutomaticRetry ==
    [][\A id \in TaskIds :
          (StatusOf(tasks, id) = "failed" /\ StatusOf(tasks', id) \notin {"failed", "absent"}) =>
              (last'.op \in {"retryTask", "addTask"} /\ last'.id = id)]_vars

\* The host of an absolute url: its parts after the scheme that are labels
\* of a host.
RECURSIVE HostLabels(_)
HostLabels(parts) ==
    IF parts = <<>> \/ Head(parts) \notin HostParts THEN <<>>
    ELSE <<Head(parts)>> \o HostLabels(Tail(parts))

HostOf(url) == HostLabels(Tail(url))

\* C28 as claimed: an absolute cover url whose host is not the active
\* server's is handed to the cover download as it is, and a relative one
\* behind the server's base with the token in it exactly once.
CoverTokenStaysHome ==
    cover.pc \in {"downloadCover", "redownloadCover"} =>
        IF IsAbsolute(cover.coverUrl)
        THEN HostOf(cover.coverUrl) # HostOf(cover.baseUrl) => cover.out = cover.coverUrl
        ELSE /\ StartsWith(cover.out, CleanBaseUrl(cover.baseUrl))
             /\ Cardinality({i \in 1..Len(cover.out) : cover.out[i] = "token="}) = 1

\* C29: the ranges requested so far start at 0, each of at most 1 MiB and
\* each beginning where the one before ended; the first write is a writeFile
\* and every later one an appendFile; and when the loop has ended, for a
\* size S, ceil(S / 1 MiB) ranges were requested, the last ending at S - 1,
\* and the temp file is S bytes long.
ChunkRanges ==
    ("ranges" \in DOMAIN dl /\ dl.ranges # <<>>) =>
        LET R == dl.ranges
            n == Len(R)
        IN  /\ R[1][1] = 0
            /\ \A i \in 1..n : R[i][1] <= R[i][2] /\ R[i][2] - R[i][1] + 1 <= ChunkBytes
            /\ \A i \in 1..(n - 1) : R[i + 1][1] = R[i][2] + 1
            /\ \A i \in 1..Len(dl.writes) :
                    dl.writes[i] = IF i = 1 THEN "writeFile" ELSE "appendFile"
            /\ Len(dl.writes) \in {n - 1, n}
            /\ dl.pc = "rename" =>
                  /\ n = (dl.total + ChunkBytes - 1) \div ChunkBytes
                  /\ R[n][2] = dl.total - 1
                  /\ Len(dl.writes) = n
                  /\ dir[FileAt(dir, dl.name, tempFileName)].size = dl.total

\* The loop has ended for a size that is not a whole number of chunks: the
\* last range is shorter than 1 MiB and the temp file is complete.
ChunkRangesWitness ==
    /\ "ranges" \in DOMAIN dl
    /\ dl.pc = "rename"
    /\ dl.ranges # <<>>
    /\ dl.total % ChunkBytes # 0
    /\ dl.ranges[Len(dl.ranges)][2] - dl.ranges[Len(dl.ranges)][1] + 1 < ChunkBytes
    /\ dir[FileAt(dir, dl.name, tempFileName)].size = dl.total

\* C30: once the mode is chosen, ranges are requested exactly when the probe
\* reported a size above 50 MiB, and otherwise there is one request for the
\* whole body and one write; in both modes no temp file of the name is there
\* from the choice of the mode to the first write.
ModeSelection ==
    ("ranges" \in DOMAIN dl /\ dl.pc \in {"chunkGet", "chunkWrite", "get", "write", "rename"}) =>
        /\ (dl.ranges # <<>> \/ dl.pc \in {"chunkGet", "chunkWrite"}) <=> dl.total > ThresholdBytes
        /\ dl.total <= ThresholdBytes => dl.ranges = <<>> /\ dl.writes = <<>>
        /\ (dl.pc \in {"get", "write"} \/ (dl.pc \in {"chunkGet", "chunkWrite"} /\ dl.offset = 0)) =>
              ~Exists(dir, dl.name, tempFileName)

\* The probe reported exactly 50 MiB and the download stands at its one
\* request for the whole body, no temp file in the cache.
ModeSelectionWitness ==
    /\ "ranges" \in DOMAIN dl
    /\ dl.pc = "get"
    /\ dl.total = ThresholdBytes
    /\ ~Exists(dir, dl.name, tempFileName)
    /\ Len(dir) = 0

\* Both limits hold for what is left of `files` once `gone` is taken away.
WithinLimits(files, gone) ==
    /\ Len(files) - Len(gone) <= MAX_FILES
    /\ SumSizes(files) - SumSizes(gone) <= MAX_CACHE_SIZE_BYTES

\* C31: the files a pass selects are the first files of the list sorted by
\* modification time, oldest first, so that no file is selected while an
\* older one is kept; with them gone both limits hold, and with any shorter
\* such prefix gone one of the limits is exceeded.  When the pass has
\* returned, the files that are gone are the selected ones.
OldestFirstNoMore ==
    /\ [][(ev.pc \in {"idle", "returned"} /\ ev' # ev) =>
            LET files == GetCacheStats(dir).files
                sorted == SortByMtime(files)
                plan == ev'.plan
                k == Len(plan)
            IN  /\ k <= Len(sorted)
                /\ plan = SubSeq(sorted, 1, k)
                /\ \A i \in 1..k : \A j \in (k + 1)..Len(sorted) :
                        sorted[j].mtime >= plan[i].mtime
                /\ WithinLimits(files, plan)
                /\ \A j \in 0..(k - 1) : ~WithinLimits(files, SubSeq(sorted, 1, j))]_vars
    /\ [](ev.pc = "returned" =>
            LET gone == SelectSeq(SortByMtime(FilesBefore), LAMBDA f : f \notin Range(FilesNow))
            IN  /\ \A f \in Range(gone) : \A g \in Range(FilesNow) : g.mtime >= f.mtime
                /\ WithinLimits(FilesBefore, gone)
                /\ gone # <<>> => ~WithinLimits(FilesBefore, SubSeq(gone, 1, Len(gone) - 1)))

\* A pass returned over three files of 2049 MiB in all, listed newest first:
\* the oldest, of 1 MiB, is gone and the two others stand at the limit.
OldestFirstNoMoreWitness ==
    /\ ev.pc = "returned"
    /\ Len(FilesBefore) = 3
    /\ FilesBefore[1].mtime > FilesBefore[3].mtime
    /\ SumSizes(FilesBefore) = MAX_CACHE_SIZE_BYTES + 1
    /\ Len(FilesNow) = 2
    /\ SumSizes(FilesNow) = MAX_CACHE_SIZE_BYTES
    /\ \A f \in Range(FilesNow) : f.mtime > 1

\* C32 as claimed: retryTask leaves every task at its place in the list,
\* and a task it reset is started only when none of the tasks that were
\* waiting at the moment of the reset still waits.
RetriedGoLast ==
    [][/\ (last'.op = "retryTask" /\ calls' = calls + 1) =>
             /\ Len(tasks') = Len(tasks)
             /\ \A i \in 1..Len(tasks) : tasks'[i].id = tasks[i].id
       /\ \A id \in TaskIds :
             (StatusOf(tasks, id) = "pending" /\ StatusOf(tasks', id) = "downloading") =>
                 ahead[id] \cap PendingIds(tasks') = {}]_vars

\* C33 as claimed: under every public operation and the settling of
\* transfers, the active-task marker is set exactly when some task is
\* 'downloading', and every such task is the one the marker names.
MarkerConsistency ==
    /\ activeTaskId # NULL <=> Downloading # {}
    /\ \A i \in Downloading : tasks[i].id = activeTaskId

\* C34 as claimed: with two executions of downloadToCache for one file name
\* under way at the same time, every final-named file is as long as the
\* resource it was downloaded from: it is nowhere cut short and holds no
\* chunk twice.
SameNameWhole ==
    \A f \in Range(dir) : ~f.tmp => f.size = f.whole

\* C35 as claimed: in the step in which the download of a task has returned
\* and the task is marked 'completed', the chapter's final-named file is in
\* the cache, whole.
CompletedImpliesCached ==
    [][\A id \in FileNames :
          (StatusOf(tasks, id) # "completed" /\ StatusOf(tasks', id) = "completed") =>
              /\ Exists(dir', id, FALSE)
              /\ dir'[FileAt(dir', id, FALSE)].size = dir'[FileAt(dir', id, FALSE)].whole]_vars

\* C36 as claimed: a download that has thrown has started no pass and has
\* left the final-named file as it found it (or absent), whichever of its
\* awaits failed, getUri included; and so it is in the step in which its
\* task is marked 'failed'.
FailedNothingCached ==
    /\ [](dl.pc = "failed" =>
            /\ dl.spawned = 0
            /\ FinalOf(dir, dl.name) \in {<<>>, dl.before})
    /\ [][\A id \in FileNames :
            (StatusOf(tasks, id) # "failed" /\ StatusOf(tasks', id) = "failed") =>
                /\ dl.spawned = 0
                /\ FinalOf(dir', id) \in {<<>>, dl.before}]_vars

\* C37 as claimed: a chapter whose task the downloads page has deleted (the
\* list has no task for it) has no final-named file in the cache once no
\* transfer is in flight, whatever the task's status was at the delete.
DeletedForGood ==
    \A id \in FileNames :
        (StatusOf(tasks, id) = "absent" /\ SumInflight(TaskIds) = 0) => ~Exists(dir, id, FALSE)

Drained ==
    /\ \A i \in 1..Len(tasks) : tasks[i].status \notin {"pending", "downloading"}
    /\ activeTaskId = NULL

\* C38: with finitely many addTask and retryTask calls and every started
\* transfer ending, by success or by failure, the queue drains: from some
\* moment on no task is 'pending' or 'downloading' and the marker is null.
QueueDrains == <>[]Drained

\* Every call has been made, one of them a retry of a task while the others
\* waited, and the queue has drained: all the tasks of the list are
\* completed or failed after the last transfer ended.
QueueDrainsWitness ==
    /\ calls = MaxCalls
    /\ Len(tasks) = MaxTasks
    /\ Drained
    /\ SumInflight(TaskIds) = 0
    /\ last.op \in {"transferSucceed", "transferFail"}
    /\ \E i \in 1..Len(tasks) : tasks[i].status = "failed"
    /\ \E i \in 1..Len(tasks) : tasks[i].status = "completed"

\* C39 as claimed: initializeQueue is never invoked while a transfer started
\* by the queue is in flight, so its run clears the marker of no live
\* transfer and demotes no task whose transfer is running, and no task is
\* ever in two transfers at once.
InitializeOnlyAtStart ==
    /\ [][(last'.op = "initializeQueue" /\ (calls' = calls + 1 \/ boot'.done # boot.done)) =>
            /\ SumInflight(TaskIds) = 0
            /\ activeTaskId = NULL
            /\ \A id \in TaskIds :
                inflight[id] > 0 /\ StatusOf(tasks, id) = "downloading" => inflight'[id] = inflight[id]]_vars
    /\ [](\A id \in TaskIds : inflight[id] <= 1)

====
